---- MODULE Spec2Model ----
(***************************************************************************)
(* Payment verification gate of the ContextNow API (server.js): the x402   *)
(* middleware in front of GET /buy/:item, the USDC payment verifier and    *)
(* the process-wide set of used transaction signatures.                    *)
(*                                                                         *)
(* Node runs one handler at a time; a handler gives up the processor only  *)
(* at an await that waits for the network.  The only such await of the     *)
(* gate is the ledger fetch (getParsedTransaction), so a /buy request is   *)
(* two atomic segments: from arrival to the fetch being issued, and from   *)
(* the fetch's answer to the response.  Every other branch answers within  *)
(* the first segment.                                                      *)
(***************************************************************************)
EXTENDS Bags, FiniteSets, Integers, Sequences, TLC

VARIABLES
    production,   \* process.env.NODE_ENV === 'production'
    wallet,       \* SOLANA_WALLET_ADDRESS ("" when not configured)
    used,         \* usedTransactionSignatures
    inflight,     \* bag of verifications suspended on their ledger fetch
    last,         \* the most recent completed request or verifier call
    accepted,     \* history: number of Accepted verdicts returned per signature
    history,      \* history: the completed requests of a session, oldest first
    monitor       \* the release monitor: a run of checkForUpdates and version_db.json

vars == <<production, wallet, used, inflight, last, accepted, history, monitor>>

----------------------------------------------------------------------------
(* JavaScript values *)

\* an absent header, query parameter or property
Undefined == "<undefined>"

\* the number NaN (undefined * n, parseInt of a non-number); amounts are >= 0
NaN == 0 - 1

\* a < b on JS numbers: false as soon as one side is NaN
Less(a, b) == a # NaN /\ b # NaN /\ a < b

\* req.query.proof for ?proof=a&proof=b: an array of strings
ArrayValue == "<array>"

\* req.query.proof for ?proof[k]=a: an object
ObjectValue == "<object>"

\* typeof v === 'string'
IsString(v) == v \notin {Undefined, ArrayValue, ObjectValue}

\* truthiness of a header or query value: undefined and "" are falsy,
\* arrays and objects are truthy
Truthy(v) == v # Undefined /\ v # ""

\* a || b
OrElse(a, b) == IF Truthy(a) THEN a ELSE b

RECURSIVE Pow10(_)
Pow10(n) == IF n = 0 THEN 1 ELSE 10 * Pow10(n - 1)

----------------------------------------------------------------------------
(* Configuration *)

USDC_MINT == "EPjFWdd5AufqSSqeM2qN1xzybapC8G4wEGGkZwyTDt1v"

USDC_DECIMALS == 6

\* wallet addresses the service may be configured with
WalletInputs == {"", "WALLET"}

\* getAssociatedTokenAddress(USDC_MINT, wallet): a deterministic derivation
AssociatedTokenAddress(mint, w) == "ata(" \o mint \o "," \o w \o ")"

\* getOurUSDCTokenAccount(): throws when no wallet is configured
GetOurUSDCTokenAccount(w) ==
    IF w = ""
    THEN [ok |-> FALSE, value |-> "SOLANA_WALLET_ADDRESS not configured"]
    ELSE [ok |-> TRUE, value |-> AssociatedTokenAddress(USDC_MINT, w)]

----------------------------------------------------------------------------
(* Catalog *)

\* prices are written with three decimals; the model keeps them in thousandths
PriceScale == 1000

\* INVENTORY: item id -> price (thousandths of a USDC)
INVENTORY ==
    ("openai-python" :> 2) @@ ("anthropic-claude" :> 2) @@
    ("langchain-python" :> 2) @@ ("langchain-js" :> 2) @@
    ("huggingface-transformers" :> 2) @@ ("stripe-node" :> 1) @@
    ("nextjs" :> 2) @@ ("remix" :> 2) @@ ("astro" :> 2) @@
    ("twilio-node" :> 1) @@ ("sendgrid-node" :> 1) @@
    ("supabase-js" :> 2) @@ ("mongodb-node" :> 1) @@
    ("planetscale-js" :> 1) @@ ("prisma" :> 2) @@ ("drizzle-orm" :> 2) @@
    ("vercel" :> 1) @@ ("railway" :> 1) @@ ("wagmi" :> 2) @@ ("viem" :> 2) @@
    ("solana-web3" :> 2) @@ ("ethers" :> 2) @@ ("vitest" :> 1) @@
    ("playwright" :> 1) @@ ("bundle-ai" :> 8) @@ ("bundle-web3" :> 6) @@
    ("bundle-all" :> 25)

\* Object.keys(INVENTORY)
CatalogItems == DOMAIN INVENTORY

\* property names every JavaScript object inherits from Object.prototype
ObjectPrototypeKeys ==
    {"constructor", "toString", "toLocaleString", "valueOf", "hasOwnProperty",
     "isPrototypeOf", "propertyIsEnumerable", "__proto__", "__defineGetter__",
     "__defineSetter__", "__lookupGetter__", "__lookupSetter__"}

\* INVENTORY[item]: an own entry, an inherited (truthy, price-less) value,
\* or undefined
InventoryLookup(item) ==
    IF item \in CatalogItems
    THEN [truthy |-> TRUE, price |-> INVENTORY[item], content |-> "content of " \o item]
    ELSE IF item \in ObjectPrototypeKeys
    THEN [truthy |-> TRUE, price |-> NaN, content |-> Undefined]
    ELSE [truthy |-> FALSE, price |-> NaN, content |-> Undefined]

\* Math.floor(price * Math.pow(10, USDC_DECIMALS)); undefined * n is NaN
BaseUnits(price) ==
    IF price = NaN THEN NaN ELSE (price * Pow10(USDC_DECIMALS)) \div PriceScale

----------------------------------------------------------------------------
(* Ledger records *)

\* parseInt of a decimal string, given as its digits; "" and undefined
\* (both modelled by the empty sequence) give NaN
RECURSIVE ParseInt(_)
ParseInt(s) ==
    IF s = <<>> THEN NaN
    ELSE IF Len(s) = 1 THEN s[1]
    ELSE 10 * ParseInt(SubSeq(s, 1, Len(s) - 1)) + s[Len(s)]

\* info.amount || info.tokenAmount?.amount
InstructionAmount(ins) == IF ins.amount # <<>> THEN ins.amount ELSE ins.tokenAmount

\* Qualifies without the destination check
Qualifies_AnyDestination(ins, ours) ==
    /\ ins.parsed
    /\ ins.program = "spl-token"
    /\ ins.type \in {"transfer", "transferChecked"}
    /\ ~(ins.type = "transferChecked" /\ ins.mint # USDC_MINT)

\* lines 91-105: a parsed spl-token transfer / transferChecked to our account,
\* a transferChecked only when its mint is USDC
Qualifies(ins, ours) ==
    /\ ins.parsed
    /\ ins.program = "spl-token"
    /\ ins.type \in {"transfer", "transferChecked"}
    /\ ins.destination = ours
    /\ ~(ins.type = "transferChecked" /\ ins.mint # USDC_MINT)

\* the loop without its break: the last qualifying instruction wins
RECURSIVE ScanFrom_NoBreak(_, _, _)
ScanFrom_NoBreak(instructions, i, ours) ==
    IF i > Len(instructions)
    THEN [validPaymentFound |-> FALSE, receivedAmount |-> 0]
    ELSE LET rest == ScanFrom_NoBreak(instructions, i + 1, ours) IN
         IF rest.validPaymentFound \/ ~Qualifies(instructions[i], ours) THEN rest
         ELSE [validPaymentFound |-> TRUE,
               receivedAmount |-> ParseInt(InstructionAmount(instructions[i]))]

\* the for loop of lines 89-112, from instruction i on
RECURSIVE ScanFrom(_, _, _)
ScanFrom(instructions, i, ours) ==
    IF i > Len(instructions)
    THEN [validPaymentFound |-> FALSE, receivedAmount |-> 0]
    ELSE IF Qualifies(instructions[i], ours)
    THEN [validPaymentFound |-> TRUE,
          receivedAmount |-> ParseInt(InstructionAmount(instructions[i]))]
    ELSE ScanFrom(instructions, i + 1, ours)

ScanInstructions(instructions, ours) == ScanFrom(instructions, 1, ours)

----------------------------------------------------------------------------
(* verifyUSDCPayment *)

\* the explorer's address without the signature
SolscanUrl_NoSignature(sig) == "https://solscan.io/tx/"

SolscanUrl(sig) == "https://solscan.io/tx/" \o sig

\* receivedAmount / 10^6, kept exact as whole USDC and millionths
ToUSDC(baseUnits) ==
    IF baseUnits = NaN THEN [whole |-> NaN, micro |-> NaN]
    ELSE [whole |-> baseUnits \div Pow10(USDC_DECIMALS),
          micro |-> baseUnits % Pow10(USDC_DECIMALS)]

\* expectedAmountUSDC - receivedUSDC, exact, in millionths of a USDC
Shortfall(expectedAmountUSDC, receivedAmount) ==
    expectedAmountUSDC * (Pow10(USDC_DECIMALS) \div PriceScale) - receivedAmount

\* the replay rejection under another code
ReplayVerdict_OtherCode ==
    [valid |-> FALSE, code |-> "REPLAY", error |-> "Transaction already used",
     message |-> "This transaction signature has already been used for a previous purchase. Each purchase requires a new USDC transaction.",
     action |-> "Send a new USDC payment and use the new transaction signature"]

\* lines 41-49
ReplayVerdict ==
    [valid |-> FALSE, code |-> "REPLAY_ATTACK", error |-> "Transaction already used",
     message |-> "This transaction signature has already been used for a previous purchase. Each purchase requires a new USDC transaction.",
     action |-> "Send a new USDC payment and use the new transaction signature"]

\* a catch block that lets the fault go on to the caller
VerificationError_Rethrows(msg) ==
    [valid |-> FALSE, code |-> "<uncaught exception>",
     error |-> msg, message |-> Undefined, action |-> Undefined]

\* lines 156-165
VerificationError(msg) ==
    [valid |-> FALSE, code |-> "VERIFICATION_ERROR",
     error |-> "Verification failed: " \o msg,
     message |-> "An error occurred while verifying your payment. Please try again.",
     action |-> "Retry the request. If the issue persists, contact support."]

\* a tolerance of 10% instead of 1%
BelowMinimum_TenPercent(receivedAmount, expectedBaseUnits) ==
    IF receivedAmount = NaN \/ expectedBaseUnits = NaN THEN FALSE
    ELSE Less(100 * receivedAmount, 100 * expectedBaseUnits - 10 * expectedBaseUnits)

\* <= instead of <: the floor itself is rejected
BelowMinimum_Inclusive(receivedAmount, expectedBaseUnits) ==
    IF receivedAmount = NaN \/ expectedBaseUnits = NaN THEN FALSE
    ELSE 100 * receivedAmount <= 100 * expectedBaseUnits - expectedBaseUnits

\* receivedAmount < minAmount, with minAmount = expected - expected * 0.01,
\* compared in hundredths of a base unit
BelowMinimum(receivedAmount, expectedBaseUnits) ==
    IF receivedAmount = NaN \/ expectedBaseUnits = NaN THEN FALSE
    ELSE Less(100 * receivedAmount, 100 * expectedBaseUnits - expectedBaseUnits)

\* the TypeError of line 85 on a record that has no transaction.message
MessageReadError == "Cannot read properties of undefined (reading 'message')"

\* the instructions are scanned before the meta is looked at
VerdictAfterFetch_ScanBeforeMeta(sig, expectedAmountUSDC, answer, w) ==
    IF answer.kind = "error" THEN VerificationError(answer.message)
    ELSE IF answer.kind = "null" THEN
        [valid |-> FALSE, code |-> "TX_NOT_FOUND",
         error |-> "Transaction not found on Solana blockchain",
         message |-> "The transaction signature was not found. It may still be processing or the signature may be incorrect.",
         action |-> "Wait a few seconds for confirmation, then retry. If the issue persists, verify the transaction signature is correct.",
         solscan_url |-> SolscanUrl(sig)]
    ELSE IF /\ answer.kind = "tx" /\ GetOurUSDCTokenAccount(w).ok
            /\ ~ScanInstructions(answer.instructions,
                                 GetOurUSDCTokenAccount(w).value).validPaymentFound
    THEN
        [valid |-> FALSE, code |-> "WRONG_RECIPIENT",
         error |-> "Payment sent to wrong address",
         message |-> "No USDC transfer to our wallet was found in this transaction. You may have sent to the wrong address or sent SOL instead of USDC.",
         action |-> "Send USDC (not SOL) to the correct token account address",
         correct_address |-> GetOurUSDCTokenAccount(w).value,
         solscan_url |-> SolscanUrl(sig)]
    ELSE IF answer.meta # "ok" THEN
        [valid |-> FALSE, code |-> "TX_FAILED",
         error |-> "Transaction failed or not confirmed",
         message |-> "The transaction exists but failed or has not been confirmed yet.",
         action |-> "Check the transaction on Solscan. If it failed, send a new payment.",
         solscan_url |-> SolscanUrl(sig)]
    ELSE LET account == GetOurUSDCTokenAccount(w) IN
    IF ~account.ok THEN VerificationError(account.value)
    ELSE IF answer.kind = "malformed" THEN VerificationError(MessageReadError)
    ELSE LET scan == ScanInstructions(answer.instructions, account.value)
             expectedBaseUnits == BaseUnits(expectedAmountUSDC)
         IN
    IF ~scan.validPaymentFound THEN
        [valid |-> FALSE, code |-> "WRONG_RECIPIENT",
         error |-> "Payment sent to wrong address",
         message |-> "No USDC transfer to our wallet was found in this transaction. You may have sent to the wrong address or sent SOL instead of USDC.",
         action |-> "Send USDC (not SOL) to the correct token account address",
         correct_address |-> account.value,
         solscan_url |-> SolscanUrl(sig)]
    ELSE IF BelowMinimum(scan.receivedAmount, expectedBaseUnits) THEN
        [valid |-> FALSE, code |-> "INSUFFICIENT_AMOUNT",
         error |-> <<"Insufficient amount", expectedAmountUSDC, ToUSDC(scan.receivedAmount)>>,
         message |-> <<"The payment amount is too low", ToUSDC(scan.receivedAmount),
                       expectedAmountUSDC>>,
         action |-> <<"Send an additional USDC",
                      Shortfall(expectedAmountUSDC, scan.receivedAmount)>>,
         expected |-> expectedAmountUSDC,
         received |-> ToUSDC(scan.receivedAmount),
         shortfall |-> Shortfall(expectedAmountUSDC, scan.receivedAmount)]
    ELSE
        [valid |-> TRUE, amountReceived |-> ToUSDC(scan.receivedAmount),
         transactionSignature |-> sig]

\* lines 57-154: the verdict once the fetch has answered `answer`
VerdictAfterFetch(sig, expectedAmountUSDC, answer, w) ==
    IF answer.kind = "error" THEN VerificationError(answer.message)
    ELSE IF answer.kind = "null" THEN
        [valid |-> FALSE, code |-> "TX_NOT_FOUND",
         error |-> "Transaction not found on Solana blockchain",
         message |-> "The transaction signature was not found. It may still be processing or the signature may be incorrect.",
         action |-> "Wait a few seconds for confirmation, then retry. If the issue persists, verify the transaction signature is correct.",
         solscan_url |-> SolscanUrl(sig)]
    ELSE IF answer.meta # "ok" THEN
        [valid |-> FALSE, code |-> "TX_FAILED",
         error |-> "Transaction failed or not confirmed",
         message |-> "The transaction exists but failed or has not been confirmed yet.",
         action |-> "Check the transaction on Solscan. If it failed, send a new payment.",
         solscan_url |-> SolscanUrl(sig)]
    ELSE LET account == GetOurUSDCTokenAccount(w) IN
    IF ~account.ok THEN VerificationError(account.value)
    ELSE IF answer.kind = "malformed" THEN VerificationError(MessageReadError)
    ELSE LET scan == ScanInstructions(answer.instructions, account.value)
             expectedBaseUnits == BaseUnits(expectedAmountUSDC)
         IN
    IF ~scan.validPaymentFound THEN
        [valid |-> FALSE, code |-> "WRONG_RECIPIENT",
         error |-> "Payment sent to wrong address",
         message |-> "No USDC transfer to our wallet was found in this transaction. You may have sent to the wrong address or sent SOL instead of USDC.",
         action |-> "Send USDC (not SOL) to the correct token account address",
         correct_address |-> account.value,
         solscan_url |-> SolscanUrl(sig)]
    ELSE IF BelowMinimum(scan.receivedAmount, expectedBaseUnits) THEN
        [valid |-> FALSE, code |-> "INSUFFICIENT_AMOUNT",
         error |-> <<"Insufficient amount", expectedAmountUSDC, ToUSDC(scan.receivedAmount)>>,
         message |-> <<"The payment amount is too low", ToUSDC(scan.receivedAmount),
                       expectedAmountUSDC>>,
         action |-> <<"Send an additional USDC",
                      Shortfall(expectedAmountUSDC, scan.receivedAmount)>>,
         expected |-> expectedAmountUSDC,
         received |-> ToUSDC(scan.receivedAmount),
         shortfall |-> Shortfall(expectedAmountUSDC, scan.receivedAmount)]
    ELSE
        [valid |-> TRUE, amountReceived |-> ToUSDC(scan.receivedAmount),
         transactionSignature |-> sig]

\* the signature is never marked as used
UsedAfter_NeverAdds(usedSet, sig, verdict) == usedSet

\* the signature is marked as used before the checks, whatever the verdict
UsedAfter_AlwaysAdds(usedSet, sig, verdict) == usedSet \cup {sig}

\* the signature is marked as used as soon as a transfer to the receiving
\* account is found, before the amount is compared
UsedAfter_AddsBeforeAmountCheck(usedSet, sig, verdict) ==
    IF verdict.valid \/ verdict.code = "INSUFFICIENT_AMOUNT"
    THEN usedSet \cup {sig} ELSE usedSet

\* a signature the ledger has not confirmed is remembered as well, to spare
\* the next fetch
UsedAfter_RemembersRejected(usedSet, sig, verdict) ==
    IF verdict.valid THEN usedSet \cup {sig}
    ELSE IF verdict.code \in {"TX_NOT_FOUND", "TX_FAILED", "VERIFICATION_ERROR"}
    THEN usedSet \cup {sig} ELSE usedSet

\* line 148: the set after a verdict
UsedAfter(usedSet, sig, verdict) ==
    IF verdict.valid THEN usedSet \cup {sig} ELSE usedSet

----------------------------------------------------------------------------
(* x402Middleware and the GET /buy/:item handler: response bodies *)

\* the authorization header read before the x-payment-proof header
ExtractProof_AuthorizationFirst(req) ==
    OrElse(OrElse(OrElse(req.auth, req.xpp), req.qpp), req.qp)

\* req.headers['x-payment-proof'] || req.headers['authorization'] ||
\* req.query.payment_proof || req.query.proof
ExtractProof(req) == OrElse(OrElse(OrElse(req.xpp, req.auth), req.qpp), req.qp)

\* the account resolved without the test of SOLANA_WALLET_ADDRESS and with
\* the fault's message taken for the result
TokenAccountOrNull_Unguarded(w) == GetOurUSDCTokenAccount(w).value

\* usdcTokenAccount of lines 469-476 and 526-531: null unless a wallet is set
TokenAccountOrNull(w) ==
    IF w # "" /\ GetOurUSDCTokenAccount(w).ok
    THEN GetOurUSDCTokenAccount(w).value ELSE Undefined

\* lines 459-463
NotFoundResponse(item) ==
    [status |-> 404,
     body |-> [error |-> "Not Found", available_items |-> CatalogItems]]

\* a challenge that advertises the base units as the amount
ChallengeResponse_BaseUnits(item, inventoryItem, w) ==
    [status |-> 402,
     body |-> [error |-> "Payment Required",
               pricing |-> [item |-> item, amount |-> BaseUnits(inventoryItem.price),
                            currency |-> "USDC", network |-> "Solana (Mainnet)"],
               payment_details |->
                   [wallet_address |-> OrElse(w, "Not configured"),
                    usdc_token_account |->
                        OrElse(TokenAccountOrNull(w), "Not configured"),
                    usdc_mint |-> USDC_MINT,
                    amount_usdc |-> inventoryItem.price,
                    amount_base_units |-> BaseUnits(inventoryItem.price)],
               example_header |->
                   "x-payment-proof: <your-solana-transaction-signature>"]]

\* a challenge that counts USDC with five decimals
ChallengeResponse_FiveDecimals(item, inventoryItem, w) ==
    [status |-> 402,
     body |-> [error |-> "Payment Required",
               pricing |-> [item |-> item, amount |-> inventoryItem.price,
                            currency |-> "USDC", network |-> "Solana (Mainnet)"],
               payment_details |->
                   [wallet_address |-> OrElse(w, "Not configured"),
                    usdc_token_account |->
                        OrElse(TokenAccountOrNull(w), "Not configured"),
                    usdc_mint |-> USDC_MINT,
                    amount_usdc |-> inventoryItem.price,
                    amount_base_units |->
                        IF inventoryItem.price = NaN THEN NaN
                        ELSE (inventoryItem.price * Pow10(USDC_DECIMALS - 1)) \div PriceScale],
               example_header |->
                   "x-payment-proof: <your-solana-transaction-signature>"]]

\* lines 478-503
ChallengeResponse(item, inventoryItem, w) ==
    [status |-> 402,
     body |-> [error |-> "Payment Required",
               pricing |-> [item |-> item, amount |-> inventoryItem.price,
                            currency |-> "USDC", network |-> "Solana (Mainnet)"],
               payment_details |->
                   [wallet_address |-> OrElse(w, "Not configured"),
                    usdc_token_account |->
                        OrElse(TokenAccountOrNull(w), "Not configured"),
                    usdc_mint |-> USDC_MINT,
                    amount_usdc |-> inventoryItem.price,
                    amount_base_units |-> BaseUnits(inventoryItem.price)],
               example_header |->
                   "x-payment-proof: <your-solana-transaction-signature>"]]

\* the optional context of lines 541-547
FailureContext(verification) ==
    LET has(f) == f \in DOMAIN verification
        pick(f) == IF has(f) THEN f :> verification[f] ELSE <<>>
    IN  pick("solscan_url") @@ pick("correct_address") @@
        (IF has("expected")
         THEN [amount_expected |-> verification.expected,
               amount_received |-> verification.received,
               amount_shortfall |-> verification.shortfall]
         ELSE <<>>)

\* lines 533-566
FailureResponse(item, inventoryItem, verification, w) ==
    [status |-> 402,
     body |-> [error |-> "Payment Verification Failed",
               code |-> verification.code,
               reason |-> verification.error,
               details |-> verification.message,
               action_required |-> verification.action,
               retry_info |->
                   [item |-> item,
                    required_amount |-> inventoryItem.price,
                    currency |-> "USDC",
                    payment_address |->
                        OrElse(OrElse(TokenAccountOrNull(w), w), "Not configured"),
                    header_to_use |-> "x-payment-proof"]]
              @@ FailureContext(verification)]

DevelopmentBypass == [method |-> "development_bypass"]

\* a handler that charges what was received, in base units
SuccessResponse_ChargesReceived(item, inventoryItem, paymentInfo) ==
    [status |-> 200,
     body |-> [success |-> TRUE, item |-> item,
               charged |-> IF "amountReceived" \in DOMAIN paymentInfo
                           THEN paymentInfo.amountReceived.whole * Pow10(USDC_DECIMALS)
                                + paymentInfo.amountReceived.micro
                           ELSE inventoryItem.price,
               currency |-> "USDC",
               payment |-> paymentInfo,
               content |-> inventoryItem.content]]

\* lines 2530-2543: the handler behind the middleware
SuccessResponse(item, inventoryItem, paymentInfo) ==
    [status |-> 200,
     body |-> [success |-> TRUE, item |-> item,
               charged |-> inventoryItem.price, currency |-> "USDC",
               payment |-> paymentInfo,
               content |-> inventoryItem.content]]

\* lines 523-573 followed by the handler
VerificationResponse(item, verification, w) ==
    IF ~verification.valid
    THEN FailureResponse(item, InventoryLookup(item), verification, w)
    ELSE SuccessResponse(item, InventoryLookup(item), verification)

----------------------------------------------------------------------------
(* Inputs *)

\* at most this many verifications are suspended on the ledger at once
MaxInFlight == 2

\* at most this many instructions in a transaction given to the verifier
MaxInstructions == 2

Signatures == {"SIG_A", "valid_proof"}

ItemInputs == {"stripe-node", "openai-python", "constructor", "no-such-item"}

\* requests of the concurrent service: the proof in the x-payment-proof header
RequestInputs ==
    {[item |-> i, xpp |-> p, auth |-> Undefined, qpp |-> Undefined, qp |-> Undefined]
        : i \in ItemInputs, p \in Signatures \cup {Undefined}}

\* the digits of n >= 0, as the ledger prints an amount
RECURSIVE ToDigits(_)
ToDigits(n) == IF n < 10 THEN <<n>> ELSE Append(ToDigits(n \div 10), n % 10)

OurAccount == AssociatedTokenAddress(USDC_MINT, "WALLET")

OtherAccount == "OTHER_ACCOUNT"

OtherMint == "OTHER_MINT"

Transfer(dest, n) ==
    [parsed |-> TRUE, program |-> "spl-token", type |-> "transfer",
     destination |-> dest, mint |-> Undefined,
     amount |-> ToDigits(n), tokenAmount |-> <<>>]

TransferChecked(dest, mint, n) ==
    [parsed |-> TRUE, program |-> "spl-token", type |-> "transferChecked",
     destination |-> dest, mint |-> mint,
     amount |-> <<>>, tokenAmount |-> ToDigits(n)]

\* a SOL transfer of the system program: parsed, with a destination
SystemTransfer(dest) ==
    [parsed |-> TRUE, program |-> "system", type |-> "transfer",
     destination |-> dest, mint |-> Undefined,
     amount |-> <<>>, tokenAmount |-> <<>>]

\* an spl-token instruction of another type that names a destination
CloseAccount(dest) ==
    [parsed |-> TRUE, program |-> "spl-token", type |-> "closeAccount",
     destination |-> dest, mint |-> Undefined,
     amount |-> <<>>, tokenAmount |-> <<>>]

\* an instruction the RPC node could not parse
RawInstruction ==
    [parsed |-> FALSE, program |-> Undefined, type |-> Undefined,
     destination |-> Undefined, mint |-> Undefined,
     amount |-> <<>>, tokenAmount |-> <<>>]

Null == [kind |-> "null"]

RpcError == [kind |-> "error", message |-> "fetch failed"]

\* the RPC node refuses a signature that is no base-58 string of 64 bytes
InvalidSignatureError ==
    [kind |-> "error", message |-> "failed to get transaction: Invalid param: WrongSize"]

Tx(meta, instructions) ==
    [kind |-> "tx", meta |-> meta, instructions |-> instructions]

\* a record with a meta but without the transaction.message it should hold
MalformedTx(meta) ==
    [kind |-> "malformed", meta |-> meta, instructions |-> <<>>]

\* what the ledger may answer to a /buy request's fetch
LedgerAnswers ==
    {Null, RpcError,
     Tx("err", <<Transfer(OurAccount, 2000)>>),
     Tx("ok", <<Transfer(OurAccount, 989)>>),
     Tx("ok", <<Transfer(OurAccount, 1000)>>),
     Tx("ok", <<TransferChecked(OurAccount, USDC_MINT, 2000)>>),
     Tx("ok", <<Transfer(OtherAccount, 5000)>>),
     Tx("ok", <<SystemTransfer(OurAccount), Transfer(OurAccount, 990),
                Transfer(OurAccount, 2000)>>)}

----------------------------------------------------------------------------
(* State *)

NoFetch == [kind |-> "none"]

NoVerdict == [valid |-> FALSE, code |-> "NONE"]

NoResponse == [status |-> 0]

Completed(route, item, proof, expected, fetched, verdict, response) ==
    [route |-> route, item |-> item, proof |-> proof, expected |-> expected,
     fetched |-> fetched, verdict |-> verdict, response |-> response]

Nothing == Completed("none", Undefined, Undefined, NaN, NoFetch, NoVerdict, NoResponse)

\* a call of verifyUSDCPayment suspended at line 52
Suspended(route, item, sig, expected) ==
    [route |-> route, item |-> item, sig |-> sig, expected |-> expected]

----------------------------------------------------------------------------
(* The release monitor (a script of its own)                                *)

\* lines 10-170
SOURCES ==
    <<
      [name |-> "OpenAI Python", repo |-> "openai/openai-python",
       docs |-> "https://platform.openai.com/docs", category |-> "ai"],
      [name |-> "Anthropic Claude", repo |-> "anthropics/anthropic-sdk-python",
       docs |-> "https://docs.anthropic.com", category |-> "ai"],
      [name |-> "LangChain Python", repo |-> "langchain-ai/langchain",
       docs |-> "https://python.langchain.com/docs", category |-> "ai"],
      [name |-> "LangChain JS", repo |-> "langchain-ai/langchainjs",
       docs |-> "https://js.langchain.com/docs", category |-> "ai"],
      [name |-> "Hugging Face Transformers", repo |-> "huggingface/transformers",
       docs |-> "https://huggingface.co/docs/transformers", category |-> "ai"],
      [name |-> "Stripe Node", repo |-> "stripe/stripe-node",
       docs |-> "https://stripe.com/docs/api", category |-> "payments"],
      [name |-> "Next.js", repo |-> "vercel/next.js",
       docs |-> "https://nextjs.org/docs", category |-> "framework"],
      [name |-> "Remix", repo |-> "remix-run/remix",
       docs |-> "https://remix.run/docs", category |-> "framework"],
      [name |-> "Astro", repo |-> "withastro/astro",
       docs |-> "https://docs.astro.build", category |-> "framework"],
      [name |-> "Twilio Node", repo |-> "twilio/twilio-node",
       docs |-> "https://www.twilio.com/docs", category |-> "communication"],
      [name |-> "SendGrid Node", repo |-> "sendgrid/sendgrid-nodejs",
       docs |-> "https://docs.sendgrid.com", category |-> "communication"],
      [name |-> "Supabase JS", repo |-> "supabase/supabase-js",
       docs |-> "https://supabase.com/docs", category |-> "database"],
      [name |-> "MongoDB Node", repo |-> "mongodb/node-mongodb-native",
       docs |-> "https://www.mongodb.com/docs/drivers/node/current", category |-> "database"],
      [name |-> "PlanetScale Database JS", repo |-> "planetscale/database-js",
       docs |-> "https://planetscale.com/docs", category |-> "database"],
      [name |-> "Prisma", repo |-> "prisma/prisma",
       docs |-> "https://www.prisma.io/docs", category |-> "database"],
      [name |-> "Drizzle ORM", repo |-> "drizzle-team/drizzle-orm",
       docs |-> "https://orm.drizzle.team/docs", category |-> "database"],
      [name |-> "Vercel CLI", repo |-> "vercel/vercel",
       docs |-> "https://vercel.com/docs", category |-> "infrastructure"],
      [name |-> "Railway CLI", repo |-> "railwayapp/cli",
       docs |-> "https://docs.railway.app", category |-> "infrastructure"],
      [name |-> "wagmi", repo |-> "wevm/wagmi",
       docs |-> "https://wagmi.sh", category |-> "web3"],
      [name |-> "viem", repo |-> "wevm/viem",
       docs |-> "https://viem.sh", category |-> "web3"],
      [name |-> "Solana Web3.js", repo |-> "solana-labs/solana-web3.js",
       docs |-> "https://solana-labs.github.io/solana-web3.js", category |-> "web3"],
      [name |-> "Ethers.js", repo |-> "ethers-io/ethers.js",
       docs |-> "https://docs.ethers.org", category |-> "web3"],
      [name |-> "Vitest", repo |-> "vitest-dev/vitest",
       docs |-> "https://vitest.dev", category |-> "testing"],
      [name |-> "Playwright", repo |-> "microsoft/playwright",
       docs |-> "https://playwright.dev/docs", category |-> "testing"]
    >>

\* REPOS, line 173
REPOS == {SOURCES[i].repo : i \in DOMAIN SOURCES}

\* tag names GitHub may report
Versions == {"v1", "v2"}

\* loadDatabase() without a file: {} (db[repo] is undefined for every repo)
EmptyDatabase == [r \in REPOS |-> Undefined]

\* what GitHub answers to the two requests of getLatestRelease: the status of
\* /releases/latest with its tag_name, the status of /tags with the names
\* listed (status 0: no response at all)
Lookup(releases, tag_name, tags, names) ==
    [releases |-> releases, tag_name |-> tag_name, tags |-> tags, names |-> names]

LookupOutcomes ==
    {Lookup(200, v, 0, <<>>) : v \in Versions}
    \cup {Lookup(404, Undefined, 200, q) : q \in {<<>>, <<"v1">>, <<"v2", "v1">>}}
    \cup {Lookup(404, Undefined, st, <<>>) : st \in {403, 0}}
    \cup {Lookup(st, Undefined, 0, <<>>) : st \in {403, 0}}

\* lines 177-208: the value returned, or threw when the call rejects; the
\* request for the tags is made inside the catch block, where nothing
\* catches its failure
GetLatestRelease(o) ==
    IF o.releases = 200
    THEN [threw |-> FALSE, value |-> o.tag_name]
    ELSE IF o.releases = 404
    THEN IF o.tags # 200
         THEN [threw |-> TRUE, value |-> Undefined]
         ELSE IF Len(o.names) > 0
         THEN [threw |-> FALSE, value |-> o.names[1]]
         ELSE [threw |-> FALSE, value |-> Undefined]
    ELSE [threw |-> FALSE, value |-> Undefined]

\* the monitor before checkForUpdates is called, version_db.json holding file
NotRun(file) ==
    [phase |-> "idle", pos |-> 0, db |-> EmptyDatabase, file |-> file,
     updates |-> <<>>, errors |-> <<>>, log |-> <<>>]

\* the step belongs to no recorded session (and is no step of the monitor)
Unlogged == UNCHANGED <<history, monitor>>

Init ==
    /\ production \in BOOLEAN
    /\ wallet \in WalletInputs
    /\ used = {}
    /\ inflight = EmptyBag
    /\ last = Nothing
    /\ accepted = [s \in Signatures |-> 0]
    /\ history = <<>>
    /\ monitor = NotRun(EmptyDatabase)

----------------------------------------------------------------------------
(* GET /buy/:item, first segment: x402Middleware up to the ledger fetch *)

\* line 454 completes: paymentProof is falsy or has a substring method
ProofLogged(req) == ~Truthy(ExtractProof(req)) \/ IsString(ExtractProof(req))

\* the node process ends with exit code 1: the request gets no response
ProcessExit == [status |-> 0, exitCode |-> 1]

\* what follows when the middleware's promise rejects: Express 4 does not
\* observe the rejection, it is unhandled and node ends the process; Express 5
\* passes it to the default error handler, which answers a bare 500
FaultOutcomes == {ProcessExit, [status |-> 500, body |-> "TypeError"]}

\* line 454 throws TypeError: paymentProof.substring is not a function; when
\* the process ends, the set in memory and the suspended requests go with it
BuyFault(req, outcome) ==
    /\ ~ProofLogged(req)
    /\ last' = Completed("buy-fault", req.item, ExtractProof(req), NaN,
                         NoFetch, NoVerdict, outcome)
    /\ used' = IF outcome = ProcessExit THEN {} ELSE used
    /\ inflight' = IF outcome = ProcessExit THEN EmptyBag ELSE inflight
    /\ UNCHANGED <<production, wallet, accepted>>

\* lines 457-464
BuyNotFound(req) ==
    /\ ProofLogged(req)
    /\ ~InventoryLookup(req.item).truthy
    /\ last' = Completed("buy-404", req.item, ExtractProof(req), NaN,
                         NoFetch, NoVerdict, NotFoundResponse(req.item))
    /\ UNCHANGED <<production, wallet, used, inflight, accepted>>

\* lines 467-504
BuyChallenge(req) ==
    /\ InventoryLookup(req.item).truthy
    /\ ~Truthy(ExtractProof(req))
    /\ last' = Completed("buy-challenge", req.item, ExtractProof(req), NaN,
                         NoFetch, NoVerdict,
                         ChallengeResponse(req.item, InventoryLookup(req.item), wallet))
    /\ UNCHANGED <<production, wallet, used, inflight, accepted>>

\* the bypass without the NODE_ENV test
BuyBypass_AnyMode(req) ==
    /\ InventoryLookup(req.item).truthy
    /\ Truthy(ExtractProof(req))
    /\ ExtractProof(req) = "valid_proof"
    /\ last' = Completed("buy-bypass", req.item, ExtractProof(req), NaN,
                         NoFetch, NoVerdict,
                         SuccessResponse(req.item, InventoryLookup(req.item),
                                         DevelopmentBypass))
    /\ UNCHANGED <<production, wallet, used, inflight, accepted>>

\* lines 507-510, then the handler
\* a sentinel that is consumed like a signature: good for one request
BuyBypass_ConsumesSentinel(req) ==
    /\ InventoryLookup(req.item).truthy
    /\ Truthy(ExtractProof(req))
    /\ ExtractProof(req) = "valid_proof" /\ ~production
    /\ ExtractProof(req) \notin used
    /\ used' = used \cup {ExtractProof(req)}
    /\ last' = Completed("buy-bypass", req.item, ExtractProof(req), NaN,
                         NoFetch, NoVerdict,
                         SuccessResponse(req.item, InventoryLookup(req.item),
                                         DevelopmentBypass))
    /\ UNCHANGED <<production, wallet, inflight, accepted>>

BuyBypass(req) ==
    /\ InventoryLookup(req.item).truthy
    /\ Truthy(ExtractProof(req))
    /\ ExtractProof(req) = "valid_proof" /\ ~production
    /\ last' = Completed("buy-bypass", req.item, ExtractProof(req), NaN,
                         NoFetch, NoVerdict,
                         SuccessResponse(req.item, InventoryLookup(req.item),
                                         DevelopmentBypass))
    /\ UNCHANGED <<production, wallet, used, inflight, accepted>>

\* the guard of line 519: the request reaches verifyUSDCPayment
ReachesVerifier(req) ==
    /\ ProofLogged(req)
    /\ InventoryLookup(req.item).truthy
    /\ Truthy(ExtractProof(req))
    /\ ~(ExtractProof(req) = "valid_proof" /\ ~production)

\* line 519 with lines 41-49: the verifier answers at once, then lines 523-566
BuyReplay(req) ==
    /\ ReachesVerifier(req)
    /\ ExtractProof(req) \in used
    /\ last' = Completed("buy-verify", req.item, ExtractProof(req),
                         InventoryLookup(req.item).price, NoFetch, ReplayVerdict,
                         VerificationResponse(req.item, ReplayVerdict, wallet))
    /\ UNCHANGED <<production, wallet, used, inflight, accepted>>

\* line 519 with lines 41-55: the verifier issues the fetch and suspends
BuyVerifyStart(req) ==
    /\ ReachesVerifier(req)
    /\ ExtractProof(req) \notin used
    /\ BagCardinality(inflight) < MaxInFlight
    /\ inflight' = inflight (+) SetToBag({Suspended("buy-verify", req.item,
                        ExtractProof(req), InventoryLookup(req.item).price)})
    /\ UNCHANGED <<production, wallet, used, last, accepted>>

\* a gate with a session: a proof counts only when the client's request
\* before it was answered with the challenge for the same item
BuyVerifyComplete_NeedsChallenge(r, answer) ==
    /\ BagIn(r, inflight)
    /\ r.route = "buy-verify"
    /\ LET challenged == last.route = "buy-challenge" /\ last.item = r.item
           verdict == VerdictAfterFetch(r.sig, r.expected, answer, wallet)
       IN
        /\ used' = IF challenged THEN UsedAfter(used, r.sig, verdict) ELSE used
        /\ accepted' = IF challenged /\ verdict.valid
                       THEN [accepted EXCEPT ![r.sig] = @ + 1] ELSE accepted
        /\ last' = IF challenged
                   THEN Completed("buy-verify", r.item, r.sig, r.expected, answer,
                                  verdict, VerificationResponse(r.item, verdict, wallet))
                   ELSE Completed("buy-challenge", r.item, r.sig, NaN, answer, NoVerdict,
                                  ChallengeResponse(r.item, InventoryLookup(r.item), wallet))
    /\ inflight' = inflight (-) SetToBag({r})
    /\ UNCHANGED <<production, wallet>>

(* second segment: the fetch answers; lines 57-166, 521-573 and the handler *)
BuyVerifyComplete(r, answer) ==
    /\ BagIn(r, inflight)
    /\ r.route = "buy-verify"
    /\ LET verdict == VerdictAfterFetch(r.sig, r.expected, answer, wallet) IN
        /\ used' = UsedAfter(used, r.sig, verdict)
        /\ accepted' = IF verdict.valid
                       THEN [accepted EXCEPT ![r.sig] = @ + 1] ELSE accepted
        /\ last' = Completed("buy-verify", r.item, r.sig, r.expected, answer,
                             verdict, VerificationResponse(r.item, verdict, wallet))
    /\ inflight' = inflight (-) SetToBag({r})
    /\ UNCHANGED <<production, wallet>>

\* GET /payment-info (lines 2445-2528): a read-only description
PaymentInfo ==
    /\ last' = Completed("payment-info", Undefined, Undefined, NaN, NoFetch, NoVerdict,
                         [status |-> 200,
                          body |-> [wallet |-> [address |->
                                        OrElse(wallet, "Not configured - set SOLANA_WALLET_ADDRESS env var"),
                                      usdc_token_account |->
                                        OrElse(TokenAccountOrNull(wallet), "Not configured")],
                                    pricing |-> [i \in CatalogItems |-> BaseUnits(INVENTORY[i])]]])
    /\ UNCHANGED <<production, wallet, used, inflight, accepted>>

Next ==
    \/ \E req \in RequestInputs : BuyNotFound(req) /\ Unlogged
    \/ \E req \in RequestInputs : BuyChallenge(req) /\ Unlogged
    \/ \E req \in RequestInputs : BuyBypass(req) /\ Unlogged
    \/ \E req \in RequestInputs : BuyReplay(req) /\ Unlogged
    \/ \E req \in RequestInputs : BuyVerifyStart(req) /\ Unlogged
    \/ \E r \in BagToSet(inflight) : \E answer \in LedgerAnswers : BuyVerifyComplete(r, answer) /\ Unlogged
    \/ PaymentInfo /\ Unlogged

Spec == Init /\ [][Next]_vars

----------------------------------------------------------------------------
(* verifyUSDCPayment called on its own: one call, over a wide range of      *)
(* transaction records                                                     *)

\* prices (thousandths) the verifier is called with; NaN is an undefined price
ExpectedInputs == {1, 2, 1000, NaN}

\* amounts of a single transfer to our account, around each price's floor
AmountInputs == {0, 989, 990, 1000, 1979, 1980, 2000, 989999, 990000, 1000000, 3000000}

\* instructions of the longer transactions
InstructionInputs ==
    {Transfer(d, n) : d \in {OurAccount, OtherAccount}, n \in {989, 1000}}
    \cup {TransferChecked(d, m, n) : d \in {OurAccount, OtherAccount},
                                     m \in {USDC_MINT, OtherMint}, n \in {989, 1000}}
    \cup {SystemTransfer(OurAccount), CloseAccount(OurAccount), RawInstruction}

RECURSIVE SeqsUpTo(_, _)
SeqsUpTo(S, n) ==
    IF n = 0 THEN {<<>>}
    ELSE LET shorter == SeqsUpTo(S, n - 1) IN
         shorter \cup {Append(q, x) : q \in shorter, x \in S}

VerifierAnswers ==
    {Null, RpcError, InvalidSignatureError, MalformedTx("ok"), MalformedTx("err")}
    \cup {Tx(m, <<Transfer(OurAccount, 1000)>>) : m \in {"none", "err"}}
    \cup {Tx(m, <<Transfer(OtherAccount, 989)>>) : m \in {"none", "err"}}
    \cup {Tx("ok", <<Transfer(OurAccount, n)>>) : n \in AmountInputs}
    \cup {Tx("ok", <<TransferChecked(OurAccount, USDC_MINT, n)>>) : n \in AmountInputs}
    \cup {Tx("ok", q) : q \in SeqsUpTo(InstructionInputs, MaxInstructions)}

InitVerifier ==
    /\ production = TRUE
    /\ wallet \in WalletInputs
    /\ used \in {{}, {"SIG_A"}}
    /\ inflight = EmptyBag
    /\ last = Nothing
    /\ accepted = [s \in Signatures |-> 0]
    /\ history = <<>>
    /\ monitor = NotRun(EmptyDatabase)

\* the test of line 41 placed after the fetch: a used signature is fetched too
VerifierReplay_FetchesFirst(sig, expected) ==
    /\ last = Nothing /\ inflight = EmptyBag
    /\ sig \in used
    /\ inflight' = SetToBag({Suspended("call", Undefined, sig, expected)})
    /\ UNCHANGED <<production, wallet, used, last, accepted>>

\* lines 41-49
VerifierReplay(sig, expected) ==
    /\ last = Nothing /\ inflight = EmptyBag
    /\ sig \in used
    /\ last' = Completed("call", Undefined, sig, expected, NoFetch, ReplayVerdict,
                         NoResponse)
    /\ UNCHANGED <<production, wallet, used, inflight, accepted>>

\* lines 41-55
VerifierStart(sig, expected) ==
    /\ last = Nothing /\ inflight = EmptyBag
    /\ sig \notin used
    /\ inflight' = SetToBag({Suspended("call", Undefined, sig, expected)})
    /\ UNCHANGED <<production, wallet, used, last, accepted>>

\* lines 57-166
VerifierComplete(r, answer) ==
    /\ BagIn(r, inflight)
    /\ r.route = "call"
    /\ LET verdict == VerdictAfterFetch(r.sig, r.expected, answer, wallet) IN
        /\ used' = UsedAfter(used, r.sig, verdict)
        /\ accepted' = IF verdict.valid
                       THEN [accepted EXCEPT ![r.sig] = @ + 1] ELSE accepted
        /\ last' = Completed("call", Undefined, r.sig, r.expected, answer, verdict,
                             NoResponse)
    /\ inflight' = inflight (-) SetToBag({r})
    /\ UNCHANGED <<production, wallet>>

NextVerifier ==
    \/ \E sig \in Signatures : \E e \in ExpectedInputs : VerifierReplay(sig, e) /\ Unlogged
    \/ \E sig \in Signatures : \E e \in ExpectedInputs : VerifierStart(sig, e) /\ Unlogged
    \/ \E r \in BagToSet(inflight) : \E answer \in VerifierAnswers : VerifierComplete(r, answer) /\ Unlogged

SpecVerifier == InitVerifier /\ [][NextVerifier]_vars

----------------------------------------------------------------------------
(* One GET /buy/:item request, over every item, every way of supplying the  *)
(* proof and every content of the set of used signatures                    *)

GateItemInputs == CatalogItems \cup ObjectPrototypeKeys \cup {"no-such-item", "Stripe-Node"}

\* the Authorization header of the README's purchase example
ReadmeAuthorization == "x402 valid_proof"

\* x-payment-proof, authorization, ?payment_proof, ?proof
ProofShapes ==
    {<<Undefined, Undefined, Undefined, Undefined>>,
     <<"", Undefined, Undefined, Undefined>>,
     <<"", "", "", "">>,
     <<"SIG_A", Undefined, Undefined, Undefined>>,
     <<"valid_proof", Undefined, Undefined, Undefined>>,
     <<Undefined, "SIG_A", Undefined, Undefined>>,
     <<Undefined, "valid_proof", Undefined, Undefined>>,
     <<Undefined, Undefined, "SIG_A", Undefined>>,
     <<Undefined, Undefined, Undefined, "valid_proof">>,
     <<Undefined, Undefined, Undefined, "SIG_A">>,
     <<"SIG_A", "valid_proof", Undefined, Undefined>>,
     <<"", "valid_proof", "SIG_A", Undefined>>,
     <<Undefined, "", "valid_proof", "SIG_A">>,
     <<"valid_proof", "SIG_A", "SIG_A", "SIG_A">>,
     <<Undefined, ReadmeAuthorization, Undefined, Undefined>>,
     <<"other-proof", "valid_proof", "SIG_A", Undefined>>,
     <<Undefined, Undefined, ArrayValue, Undefined>>,
     <<Undefined, Undefined, Undefined, ObjectValue>>,
     <<"", Undefined, "", ArrayValue>>,
     <<"SIG_A", Undefined, ArrayValue, ObjectValue>>}

GateRequestInputs ==
    {[item |-> i, xpp |-> p[1], auth |-> p[2], qpp |-> p[3], qp |-> p[4]]
        : i \in GateItemInputs, p \in ProofShapes}

InitGate ==
    /\ production \in BOOLEAN
    /\ wallet \in WalletInputs
    /\ used \in SUBSET Signatures
    /\ inflight = EmptyBag
    /\ last = Nothing
    /\ accepted = [s \in Signatures |-> IF s \in used THEN 1 ELSE 0]
    /\ history = <<>>
    /\ monitor = NotRun(EmptyDatabase)

\* the ledger's answers for a proof: a string with a space in it is no
\* base-58 signature, the RPC node refuses it or is not reached
GateAnswers(sig) ==
    IF sig \in Signatures THEN LedgerAnswers ELSE {RpcError, InvalidSignatureError}

\* no request has been received yet
GateIdle == last = Nothing /\ inflight = EmptyBag

NextGate ==
    \/ \E req \in GateRequestInputs : \E outcome \in FaultOutcomes : GateIdle /\ BuyFault(req, outcome) /\ Unlogged
    \/ \E req \in GateRequestInputs : GateIdle /\ BuyNotFound(req) /\ Unlogged
    \/ \E req \in GateRequestInputs : GateIdle /\ BuyChallenge(req) /\ Unlogged
    \/ \E req \in GateRequestInputs : GateIdle /\ BuyBypass(req) /\ Unlogged
    \/ \E req \in GateRequestInputs : GateIdle /\ BuyReplay(req) /\ Unlogged
    \/ \E req \in GateRequestInputs : GateIdle /\ BuyVerifyStart(req) /\ Unlogged
    \/ \E r \in BagToSet(inflight) : \E answer \in GateAnswers(r.sig) : BuyVerifyComplete(r, answer) /\ Unlogged

SpecGate == InitGate /\ [][NextGate]_vars

----------------------------------------------------------------------------
(* One client's session: /buy requests sent one after the other, each after *)
(* the response to the one before, in production mode; the completed        *)
(* requests are recorded in order                                           *)

\* at most this many requests in a session
MaxSession == 4

\* priced 0.001 and 0.002
SessionItems == {"stripe-node", "openai-python"}

SessionRequests ==
    {[item |-> i, xpp |-> p, auth |-> Undefined, qpp |-> Undefined, qp |-> Undefined]
        : i \in SessionItems, p \in {Undefined, "SIG_A"}}

\* what the ledger may hold for the proof when it is asked: nothing, a failed
\* transaction, a confirmed transfer of 0.0011 USDC; or the call fails
SessionAnswers ==
    {Null, RpcError,
     Tx("err", <<Transfer(OurAccount, 1100)>>),
     Tx("ok", <<Transfer(OurAccount, 1100)>>)}

InitSession ==
    /\ production = TRUE
    /\ wallet \in WalletInputs
    /\ used = {}
    /\ inflight = EmptyBag
    /\ last = Nothing
    /\ accepted = [s \in Signatures |-> 0]
    /\ history = <<>>
    /\ monitor = NotRun(EmptyDatabase)

\* the client has its last response and sends another request
SessionOpen == inflight = EmptyBag /\ Len(history) < MaxSession

\* the request completed in this step is appended to the record
Logged == history' = Append(history, last') /\ UNCHANGED monitor

NextSession ==
    \/ \E req \in SessionRequests : SessionOpen /\ BuyChallenge(req) /\ Logged
    \/ \E req \in SessionRequests : SessionOpen /\ BuyReplay(req) /\ Logged
    \/ \E req \in SessionRequests : SessionOpen /\ BuyVerifyStart(req) /\ Unlogged
    \/ \E r \in BagToSet(inflight) : \E answer \in SessionAnswers : BuyVerifyComplete(r, answer) /\ Logged

SpecSession == InitSession /\ [][NextSession]_vars

----------------------------------------------------------------------------
(* One client's session with a server started without NODE_ENV=production  *)

DevelopmentRequests ==
    {[item |-> i, xpp |-> p, auth |-> Undefined, qpp |-> Undefined, qp |-> Undefined]
        : i \in SessionItems, p \in {Undefined, "SIG_A", "valid_proof"}}

InitDevelopment ==
    /\ production = FALSE
    /\ wallet \in WalletInputs
    /\ used = {}
    /\ inflight = EmptyBag
    /\ last = Nothing
    /\ accepted = [s \in Signatures |-> 0]
    /\ history = <<>>
    /\ monitor = NotRun(EmptyDatabase)

NextDevelopment ==
    \/ \E req \in DevelopmentRequests : SessionOpen /\ BuyChallenge(req) /\ Logged
    \/ \E req \in DevelopmentRequests : SessionOpen /\ BuyBypass(req) /\ Logged
    \/ \E req \in DevelopmentRequests : SessionOpen /\ BuyReplay(req) /\ Logged
    \/ \E req \in DevelopmentRequests : SessionOpen /\ BuyVerifyStart(req) /\ Unlogged
    \/ \E r \in BagToSet(inflight) : \E answer \in SessionAnswers : BuyVerifyComplete(r, answer) /\ Logged

SpecDevelopment == InitDevelopment /\ [][NextDevelopment]_vars

----------------------------------------------------------------------------
(* One client buying one item: it asks, reads the payment details of the   *)
(* 402 challenge, pays on the ledger what they say and sends the signature  *)

\* at most this many requests in a purchase
MaxPurchase == 3

PurchaseRequests ==
    {[item |-> i, xpp |-> p, auth |-> Undefined, qpp |-> Undefined, qp |-> Undefined]
        : i \in CatalogItems, p \in {Undefined, "SIG_A"}}

InitPurchase ==
    /\ production \in BOOLEAN
    /\ wallet \in WalletInputs
    /\ used = {}
    /\ inflight = EmptyBag
    /\ last = Nothing
    /\ accepted = [s \in Signatures |-> 0]
    /\ history = <<>>
    /\ monitor = NotRun(EmptyDatabase)

\* the client has its last response and sends another request for its item
PurchaseOpen(req) ==
    /\ inflight = EmptyBag
    /\ Len(history) < MaxPurchase
    /\ history # <<>> => req.item = history[1].item

\* the payment_details of the challenges the client has received
DetailsReceived ==
    {history[i].response.body.payment_details :
        i \in {j \in DOMAIN history : history[j].route = "buy-challenge"}}

\* the records the ledger may hold for the client's signature: none yet, or
\* a confirmed transaction that pays the account of a challenge the amount
\* the challenge gave, or 2% less, by transfer or by transferChecked
PurchaseAnswers ==
    {Null}
    \cup {Tx("ok", <<Transfer(pd.usdc_token_account, pd.amount_base_units)>>)
            : pd \in DetailsReceived}
    \cup {Tx("ok", <<SystemTransfer(pd.wallet_address),
                     TransferChecked(pd.usdc_token_account, pd.usdc_mint,
                                     pd.amount_base_units)>>)
            : pd \in DetailsReceived}
    \cup {Tx("ok", <<Transfer(pd.usdc_token_account,
                              (98 * pd.amount_base_units) \div 100)>>)
            : pd \in DetailsReceived}

NextPurchase ==
    \/ \E req \in PurchaseRequests : PurchaseOpen(req) /\ BuyChallenge(req) /\ Logged
    \/ \E req \in PurchaseRequests : PurchaseOpen(req) /\ BuyReplay(req) /\ Logged
    \/ \E req \in PurchaseRequests : PurchaseOpen(req) /\ BuyVerifyStart(req) /\ Unlogged
    \/ \E r \in BagToSet(inflight) : \E answer \in PurchaseAnswers : BuyVerifyComplete(r, answer) /\ Logged

SpecPurchase == InitPurchase /\ [][NextPurchase]_vars

----------------------------------------------------------------------------
(* One run of the release monitor                                           *)

\* in a run, at most this many lookups get another answer than the ordinary
MaxOddAnswers == 1

\* the ordinary answer: the releases endpoint gives the tag v1
OrdinaryAnswer == Lookup(200, "v1", 0, <<>>)

\* version_db.json before the run: missing, or holding v1 for every repo, for
\* the repos at the odd places of SOURCES, or for all but the first
StoredFiles ==
    {[r \in REPOS |-> IF r \in S THEN "v1" ELSE Undefined] :
        S \in {{}, REPOS,
               {SOURCES[i].repo : i \in {j \in DOMAIN SOURCES : j % 2 = 1}},
               REPOS \ {SOURCES[1].repo}}}

\* GitHub may give the answer o to the next lookup of the run
AnswerAllowed(o) ==
    \/ o = OrdinaryAnswer
    \/ Cardinality({i \in DOMAIN monitor.log : monitor.log[i].lookup # OrdinaryAnswer})
           < MaxOddAnswers

ServerIdle == UNCHANGED <<production, wallet, used, inflight, last, accepted, history>>

InitMonitor ==
    /\ production = FALSE
    /\ wallet = ""
    /\ used = {}
    /\ inflight = EmptyBag
    /\ last = Nothing
    /\ accepted = [s \in Signatures |-> 0]
    /\ history = <<>>
    /\ monitor \in {NotRun(f) : f \in StoredFiles}

\* lines 224-233: loadDatabase and the empty lists
CheckStart ==
    /\ monitor.phase = "idle"
    /\ monitor' = [monitor EXCEPT !.phase = "loop", !.pos = 1, !.db = monitor.file]
    /\ ServerIdle

\* lines 235-261: one turn of the loop, GitHub answering o
VisitSource(o) ==
    /\ monitor.phase = "loop"
    /\ monitor.pos <= Len(SOURCES)
    /\ LET source == SOURCES[monitor.pos]
           result == GetLatestRelease(o)
           latestVersion == result.value
           storedVersion == monitor.db[source.repo]
           visited == [monitor EXCEPT !.pos = @ + 1,
                          !.log = Append(@, [name |-> source.name, lookup |-> o])]
           update(old) == [name |-> source.name, repo |-> source.repo,
                           oldVersion |-> old, newVersion |-> latestVersion,
                           docs |-> source.docs]
       IN monitor' =
            IF result.threw
            THEN [monitor EXCEPT !.phase = "rejected",
                      !.log = Append(@, [name |-> source.name, lookup |-> o])]
            ELSE IF ~Truthy(latestVersion)
            THEN [visited EXCEPT !.errors = Append(@, source.name)]
            ELSE IF ~Truthy(storedVersion)
            THEN [visited EXCEPT !.db[source.repo] = latestVersion,
                      !.updates = Append(@, update(Undefined))]
            ELSE IF storedVersion # latestVersion
            THEN [visited EXCEPT !.db[source.repo] = latestVersion,
                      !.updates = Append(@, update(storedVersion))]
            ELSE visited
    /\ ServerIdle

\* lines 263-295: saveDatabase, the summary and the return
SaveDatabase ==
    /\ monitor.phase = "loop"
    /\ monitor.pos = Len(SOURCES) + 1
    /\ monitor' = [monitor EXCEPT !.phase = "done", !.file = monitor.db]
    /\ ServerIdle

NextMonitor ==
    \/ CheckStart
    \/ \E o \in LookupOutcomes : AnswerAllowed(o) /\ VisitSource(o)
    \/ SaveDatabase

SpecMonitor == InitMonitor /\ [][NextMonitor]_vars

----------------------------------------------------------------------------
(* The service in front of a ledger that may leave a fetch unanswered       *)

\* the call r, suspended at line 52, whose fetch will get no answer
Unanswered(r) == [r EXCEPT !.route = "buy-unanswered"]

\* lines 21 and 52-55: the connection is made without a timeout and the await
\* has none of its own; the ledger accepts the request and never answers it
FetchNeverAnswers(r) ==
    /\ BagIn(r, inflight)
    /\ r.route = "buy-verify"
    /\ inflight' = (inflight (-) SetToBag({r})) (+) SetToBag({Unanswered(r)})
    /\ UNCHANGED <<production, wallet, used, last, accepted>>

NextSilentLedger ==
    \/ \E req \in RequestInputs : BuyNotFound(req) /\ Unlogged
    \/ \E req \in RequestInputs : BuyChallenge(req) /\ Unlogged
    \/ \E req \in RequestInputs : BuyBypass(req) /\ Unlogged
    \/ \E req \in RequestInputs : BuyReplay(req) /\ Unlogged
    \/ \E req \in RequestInputs : BuyVerifyStart(req) /\ Unlogged
    \/ \E r \in BagToSet(inflight) : \E answer \in LedgerAnswers : BuyVerifyComplete(r, answer) /\ Unlogged
    \/ \E r \in BagToSet(inflight) : FetchNeverAnswers(r) /\ Unlogged
    \/ PaymentInfo /\ Unlogged

SpecSilentLedger == Init /\ [][NextSilentLedger]_vars

----------------------------------------------------------------------------
(* Properties *)

BuyRoutes == {"buy-404", "buy-challenge", "buy-bypass", "buy-verify"}

\* a request was answered within its first segment in this step
AnsweredAtOnce == last' # last /\ inflight' = inflight

\* the request answered in this step got past lines 457-510
LastReachedVerifier ==
    /\ last'.route \in BuyRoutes
    /\ InventoryLookup(last'.item).truthy
    /\ Truthy(last'.proof)
    /\ ~(last'.proof = "valid_proof" /\ ~production)

\* base units of a price in thousandths, exactly
PriceInBaseUnits(p) == p * 1000

\* instruction ins is a token transfer of n base units or more to account a
PaysAtLeast(ins, a, hundredthsOfFloor) ==
    /\ ins.parsed /\ ins.program = "spl-token"
    /\ ins.type \in {"transfer", "transferChecked"}
    /\ ins.destination = a
    /\ InstructionAmount(ins) # <<>>
    /\ 100 * ParseInt(InstructionAmount(ins)) >= hundredthsOfFloor

\* the code of a verdict; an Accepted verdict carries none
CodeOf(verdict) == IF verdict.valid THEN "ACCEPTED" ELSE verdict.code

\* C1: concurrent verifications of one never-consumed proof against a record
\* that satisfies every check produce exactly one Accepted, the others Replay:
\* no signature ever collects two Accepted verdicts.
C1_AtMostOneAccepted == \A s \in Signatures : accepted[s] <= 1

\* C2: once a verification of p has returned Accepted, every verification of
\* p begun afterwards returns the Replay rejection at once, whatever item
\* (expected amount) it is checked against; no fetch is issued, so the
\* ledger's present answer for p cannot matter.
C2_ReplayAfterAccepted ==
    [][\A s \in Signatures : accepted[s] > 0 =>
          /\ \A r \in BagToSet(inflight') :
                r.sig = s => CopiesIn(r, inflight') <= CopiesIn(r, inflight)
          /\ (AnsweredAtOnce /\ LastReachedVerifier /\ last'.proof = s)
             => /\ last'.route = "buy-verify"
                /\ CodeOf(last'.verdict) = "REPLAY_ATTACK"
                /\ last'.fetched = NoFetch
                /\ last'.response.status = 402
                /\ last'.response.body.code = "REPLAY_ATTACK"]_vars

\* a replay rejection of a signature that was accepted before
C2_Witness ==
    /\ last.route = "buy-verify"
    /\ CodeOf(last.verdict) = "REPLAY_ATTACK"
    /\ last.proof \in Signatures
    /\ accepted[last.proof] = 1
    /\ last.item = "openai-python"

\* C3: in production a 200 for a catalog item is only sent when the fetched
\* transaction was found, confirmed, and holds a token transfer to the
\* configured receiving account of at least 99% of the item's price.
C3_ReleaseOnlyForPayment ==
    (/\ production
     /\ last.route \in BuyRoutes
     /\ last.response.status = 200
     /\ last.item \in CatalogItems)
    => /\ wallet # ""
       /\ last.fetched.kind = "tx"
       /\ last.fetched.meta = "ok"
       /\ \E i \in DOMAIN last.fetched.instructions :
             PaysAtLeast(last.fetched.instructions[i],
                         AssociatedTokenAddress(USDC_MINT, wallet),
                         99 * PriceInBaseUnits(INVENTORY[last.item]))

\* a production release of a catalog item paid inside the tolerance band
C3_Witness ==
    /\ production
    /\ last.route = "buy-verify"
    /\ last.response.status = 200
    /\ last.item = "stripe-node"
    /\ last.response.body.content = "content of stripe-node"
    /\ last.fetched = Tx("ok", <<SystemTransfer(OurAccount), Transfer(OurAccount, 990),
                                 Transfer(OurAccount, 2000)>>)

\* the case of C4: a completed call on a not-yet-consumed proof whose confirmed
\* transaction has a qualifying instruction, for a defined expected amount
C4_Case ==
    /\ last.route = "call"
    /\ last.fetched.kind = "tx"
    /\ last.fetched.meta = "ok"
    /\ wallet # ""
    /\ last.expected # NaN
    /\ ScanInstructions(last.fetched.instructions, OurAccount).validPaymentFound

C4_Received == ScanInstructions(last.fetched.instructions, OurAccount).receivedAmount

\* C4: with a qualifying instruction, Accepted exactly when the amount is at
\* least expected base units minus 1%, INSUFFICIENT_AMOUNT exactly when it is
\* below; 990,000 passes and 989,999 fails against 1,000,000.
C4_ToleranceBoundary ==
    C4_Case =>
        LET floor100 == 99 * PriceInBaseUnits(last.expected) IN
        /\ last.verdict.valid <=> 100 * C4_Received >= floor100
        /\ (~last.verdict.valid) <=> CodeOf(last.verdict) = "INSUFFICIENT_AMOUNT"
        /\ (last.expected = 1000 /\ C4_Received = 990000) => last.verdict.valid
        /\ (last.expected = 1000 /\ C4_Received = 989999) => ~last.verdict.valid
        /\ C4_Received >= PriceInBaseUnits(last.expected) => last.verdict.valid

\* 989,999 base units against an expected 1,000,000 is rejected as insufficient
C4_Witness ==
    /\ C4_Case
    /\ last.expected = 1000
    /\ C4_Received = 989999
    /\ CodeOf(last.verdict) = "INSUFFICIENT_AMOUNT"

\* C5: a request for an identifier that is no catalog item is answered 404
\* with the list of known items, whatever its proof; it never reaches the
\* challenge, the bypass or the verifier.
C5_UnknownItemIs404 ==
    /\ (last.route \in BuyRoutes /\ last.item \notin CatalogItems)
        => /\ last.route = "buy-404"
           /\ last.response.status = 404
           /\ last.response.body.available_items = CatalogItems
    /\ \A r \in BagToSet(inflight) : r.item \in CatalogItems


\* C6: in production mode nothing passes through the sentinel branch; a
\* request whose proof is the sentinel 'valid_proof' is handed to the verifier
\* like any other proof (it is suspended on the ledger or rejected as replay).
C6_NoBypassInProduction ==
    production =>
        /\ last.route # "buy-bypass"
        /\ (/\ last.route \in BuyRoutes
            /\ last.proof = "valid_proof"
            /\ InventoryLookup(last.item).truthy)
           => /\ last.route = "buy-verify"
              /\ last.verdict # NoVerdict
              /\ last.response.status = 200 => last.verdict.valid
              /\ last.fetched = NoFetch => last.verdict = ReplayVerdict

\* the verifier's own verdict on the sentinel, in production
C6_Witness ==
    /\ production
    /\ last.route = "buy-verify"
    /\ last.proof = "valid_proof"
    /\ last.fetched = Null
    /\ CodeOf(last.verdict) = "TX_NOT_FOUND"
    /\ last.response.status = 402

\* C7: a catalog item requested without proof is answered 402 with a challenge
\* advertising exactly the catalog price (pricing.amount, amount_usdc) and
\* naming the header to resubmit with; nothing is fetched and the set of used
\* signatures stays as it was.
C7_ChallengeAdvertisesPrice ==
    [][/\ \A r \in BagToSet(inflight') : Truthy(r.sig)
       /\ (/\ last' # last
           /\ last'.route \in BuyRoutes
           /\ last'.item \in CatalogItems
           /\ ~Truthy(last'.proof))
          => /\ last'.route = "buy-challenge"
             /\ last'.response.status = 402
             /\ last'.response.body.pricing.amount = INVENTORY[last'.item]
             /\ last'.response.body.payment_details.amount_usdc = INVENTORY[last'.item]
             /\ last'.response.body.example_header =
                    "x-payment-proof: <your-solana-transaction-signature>"
             /\ last'.fetched = NoFetch
             /\ inflight' = inflight
             /\ used' = used]_vars

\* a challenge sent while another signature is already consumed
C7_Witness ==
    /\ last.route = "buy-challenge"
    /\ last.item = "bundle-all"
    /\ last.proof = ""
    /\ last.response.status = 402
    /\ last.response.body.pricing.amount = 25
    /\ used = {"SIG_A"}

\* the case of C8 and C9: a completed call on a not-yet-consumed proof whose
\* transaction is confirmed, with the receiving account resolved
ScanCase ==
    /\ last.route = "call"
    /\ last.fetched.kind = "tx"
    /\ last.fetched.meta = "ok"
    /\ wallet # ""
    /\ last.expected # NaN

\* positions of the instructions that qualify, stated on the record itself
QualifyingPositions(instructions) ==
    {i \in DOMAIN instructions :
        /\ instructions[i].parsed /\ instructions[i].program = "spl-token"
        /\ instructions[i].destination = OurAccount
        /\ \/ instructions[i].type = "transfer"
           \/ instructions[i].type = "transferChecked" /\ instructions[i].mint = USDC_MINT}

FirstOf(S) == CHOOSE i \in S : \A j \in S : i <= j

\* C8: the verdict is decided by the first instruction, in recorded order,
\* that is an spl-token transfer to the receiving account or a transferChecked
\* to it with the USDC mint; later qualifying instructions are not added or
\* preferred, instructions to other accounts never count.
C8_FirstQualifyingWins ==
    ScanCase =>
        LET Q == QualifyingPositions(last.fetched.instructions) IN
        IF Q = {} THEN CodeOf(last.verdict) = "WRONG_RECIPIENT"
        ELSE LET amount == ParseInt(InstructionAmount(last.fetched.instructions[FirstOf(Q)]))
             IN /\ last.verdict.valid <=>
                       100 * amount >= 99 * PriceInBaseUnits(last.expected)
                /\ last.verdict.valid => last.verdict.amountReceived = ToUSDC(amount)
                /\ ~last.verdict.valid =>
                       /\ CodeOf(last.verdict) = "INSUFFICIENT_AMOUNT"
                       /\ last.verdict.received = ToUSDC(amount)

\* a small first qualifying transfer followed by a sufficient one is rejected
C8_Witness ==
    /\ ScanCase
    /\ last.expected = 1
    /\ last.fetched.instructions =
           <<Transfer(OurAccount, 989), Transfer(OurAccount, 1000)>>
    /\ CodeOf(last.verdict) = "INSUFFICIENT_AMOUNT"

\* a transferChecked of another mint is skipped and the scan goes on
C8_WitnessSkip ==
    /\ ScanCase
    /\ last.expected = 1
    /\ last.fetched.instructions =
           <<TransferChecked(OurAccount, OtherMint, 1000), Transfer(OurAccount, 989)>>
    /\ CodeOf(last.verdict) = "INSUFFICIENT_AMOUNT"

\* C9: a confirmed transaction with a transfer to another account and no
\* qualifying transfer to the receiving account is rejected WRONG_RECIPIENT,
\* even when the amount covers the price; the verdict names the receiving
\* account and the proof is not consumed.
C9_WrongRecipient ==
    (/\ ScanCase
     /\ QualifyingPositions(last.fetched.instructions) = {}
     /\ \E i \in DOMAIN last.fetched.instructions :
           PaysAtLeast(last.fetched.instructions[i], OtherAccount, 0))
    => /\ CodeOf(last.verdict) = "WRONG_RECIPIENT"
       /\ last.verdict.correct_address = AssociatedTokenAddress(USDC_MINT, wallet)
       /\ last.proof \notin used
       /\ accepted[last.proof] = 0

\* a transfer that covers the price, sent to another account
C9_Witness ==
    /\ ScanCase
    /\ last.expected = 1
    /\ last.fetched.instructions = <<Transfer(OtherAccount, 1000)>>
    /\ CodeOf(last.verdict) = "WRONG_RECIPIENT"
    /\ last.proof \notin used

\* C10: the set of used signatures changes only in the step that returns an
\* Accepted verdict, and then by exactly that verification's signature; every
\* rejection, every suspended verification and every 404, challenge, bypass
\* and /payment-info leaves it as it was.
C10_OnlyAcceptedConsumes ==
    [][\/ used' = used
       \/ /\ last'.route = "buy-verify"
          /\ last'.verdict.valid
          /\ last'.fetched.kind = "tx"
          /\ last'.response.status = 200
          /\ used' = used \cup {last'.proof}
          /\ BagCardinality(inflight') = BagCardinality(inflight) - 1
          /\ accepted'[last'.proof] = accepted[last'.proof] + 1]_vars

\* a rejection on the amount while another signature is consumed and a
\* verification is still suspended
C10_Witness ==
    /\ last.route = "buy-verify"
    /\ CodeOf(last.verdict) = "INSUFFICIENT_AMOUNT"
    /\ last.proof = "SIG_A"
    /\ used = {"valid_proof"}
    /\ BagCardinality(inflight) = 1

\* entry i of the session is a call of the verifier for proof p
VerifiedAt(i, p) == history[i].route = "buy-verify" /\ history[i].proof = p

\* no verification of p was accepted at the entries from i up to j
NoneAcceptedIn(i, j, p) ==
    \A k \in i..j : VerifiedAt(k, p) => ~history[k].verdict.valid

\* C11: when a verification of a proof was rejected and the same proof is
\* verified again with the same expected amount, no verification of it
\* having been accepted in between, the later call is a replay exactly when
\* the earlier one was, and whenever the ledger gives it the same answer it
\* returns the same code: a rejection changes nothing a later verdict reads.
C11_RejectionIsIdempotent ==
    \A i, j \in DOMAIN history :
        (/\ i < j
         /\ VerifiedAt(i, history[i].proof)
         /\ VerifiedAt(j, history[i].proof)
         /\ history[j].expected = history[i].expected
         /\ NoneAcceptedIn(i, j - 1, history[i].proof))
        => /\ (history[j].fetched = NoFetch) <=> (history[i].fetched = NoFetch)
           /\ history[j].fetched = history[i].fetched
              => CodeOf(history[j].verdict) = CodeOf(history[i].verdict)

\* an insufficient transfer rejected twice with the same code, with another
\* rejection of the same proof in between
C11_Witness ==
    /\ Len(history) = 3
    /\ VerifiedAt(1, "SIG_A") /\ VerifiedAt(2, "SIG_A") /\ VerifiedAt(3, "SIG_A")
    /\ history[1].item = "openai-python" /\ history[3].item = "openai-python"
    /\ history[2].item = "stripe-node"
    /\ CodeOf(history[1].verdict) = "INSUFFICIENT_AMOUNT"
    /\ CodeOf(history[2].verdict) = "TX_FAILED"
    /\ CodeOf(history[3].verdict) = "INSUFFICIENT_AMOUNT"
    /\ history[3].fetched = history[1].fetched

\* a fault is raised inside the verifier: the fetch fails, or the record is
\* confirmed and then the receiving account cannot be resolved or the
\* record cannot be read
FaultRaised(fetched, w) ==
    \/ fetched.kind = "error"
    \/ /\ fetched.kind \in {"tx", "malformed"}
       /\ fetched.meta = "ok"
       /\ (w = "" \/ fetched.kind = "malformed")

\* the message of the fault raised
FaultMessage(fetched, w) ==
    IF fetched.kind = "error" THEN fetched.message
    ELSE IF w = "" THEN "SOLANA_WALLET_ADDRESS not configured"
    ELSE MessageReadError

\* C12: a fault raised while fetching the transaction, resolving the
\* receiving account or reading the record ends the call with the rejection
\* VERIFICATION_ERROR that quotes the fault: the call returns a verdict, the
\* verdict is not Accepted, and the signature is not marked as used.
C12_FaultBecomesVerificationError ==
    (last.route = "call" /\ FaultRaised(last.fetched, wallet))
    => /\ ~last.verdict.valid
       /\ CodeOf(last.verdict) = "VERIFICATION_ERROR"
       /\ last.verdict.error =
              "Verification failed: " \o FaultMessage(last.fetched, wallet)
       /\ last.proof \notin used
       /\ accepted[last.proof] = 0

\* a confirmed record that cannot be read, with the wallet configured
C12_Witness ==
    /\ last.route = "call"
    /\ wallet # ""
    /\ last.fetched = MalformedTx("ok")
    /\ CodeOf(last.verdict) = "VERIFICATION_ERROR"
    /\ used = {}

\* a sufficient confirmed transfer met without a configured wallet
C12_WitnessNoWallet ==
    /\ last.route = "call"
    /\ wallet = ""
    /\ last.expected = 1
    /\ last.fetched = Tx("ok", <<Transfer(OurAccount, 1000)>>)
    /\ CodeOf(last.verdict) = "VERIFICATION_ERROR"

\* C13: every /buy request that has ended, whatever the item and however the
\* proof was supplied, has ended with one response of status 200, 402 or
\* 404: none ends in an unhandled fault, a bare 500 or without a response.
C13_EveryRequestAnswered ==
    last.route \in BuyRoutes \cup {"buy-fault"}
        => last.response.status \in {200, 402, 404}

\* C14: for a proof that is not yet used, a fetch that finds no transaction
\* is rejected TX_NOT_FOUND and a transaction found without meta or with
\* meta.err is rejected TX_FAILED, whatever the expected amount and the
\* wallet; the two codes differ, and both verdicts carry the explorer
\* address of the proof just presented.
C14_LedgerOutcomeClassified ==
    last.route = "call" =>
        /\ last.fetched = Null
           => /\ CodeOf(last.verdict) = "TX_NOT_FOUND"
              /\ last.verdict.solscan_url = "https://solscan.io/tx/" \o last.proof
        /\ (last.fetched.kind \in {"tx", "malformed"} /\ last.fetched.meta # "ok")
           => /\ CodeOf(last.verdict) = "TX_FAILED"
              /\ last.verdict.solscan_url = "https://solscan.io/tx/" \o last.proof
        /\ CodeOf(last.verdict) = "TX_NOT_FOUND" => last.fetched = Null
        /\ CodeOf(last.verdict) = "TX_FAILED"
           => last.fetched.kind \in {"tx", "malformed"} /\ last.fetched.meta # "ok"

\* a transaction without meta, met without a configured wallet
C14_Witness ==
    /\ last.route = "call"
    /\ wallet = ""
    /\ last.proof = "valid_proof"
    /\ last.fetched = Tx("none", <<Transfer(OurAccount, 1000)>>)
    /\ CodeOf(last.verdict) = "TX_FAILED"
    /\ last.verdict.solscan_url = "https://solscan.io/tx/valid_proof"

\* a transaction that is not found
C14_WitnessNotFound ==
    /\ last.route = "call"
    /\ last.proof = "SIG_A"
    /\ last.fetched = Null
    /\ CodeOf(last.verdict) = "TX_NOT_FOUND"
    /\ last.verdict.solscan_url = "https://solscan.io/tx/SIG_A"

\* field f of the 402 body repeats field g of the verdict
Carries(body, f, verdict, g) == f \in DOMAIN body /\ body[f] = verdict[g]

\* a USDC amount of ToUSDC, in millionths
Millionths(usdc) == usdc.whole * Pow10(USDC_DECIMALS) + usdc.micro

\* the answer to the request last completed is made from its verdict: see C15
VerdictMapped ==
        LET verdict == last.verdict
            body == last.response.body
        IN
        IF verdict.valid
        THEN last.response.status = 200 /\ body.payment = verdict
        ELSE /\ last.response.status = 402
             /\ Carries(body, "code", verdict, "code")
             /\ Carries(body, "reason", verdict, "error")
             /\ Carries(body, "details", verdict, "message")
             /\ Carries(body, "action_required", verdict, "action")
             /\ verdict.code \in {"TX_NOT_FOUND", "TX_FAILED", "WRONG_RECIPIENT"}
                => /\ "solscan_url" \in DOMAIN body
                   /\ body.solscan_url = "https://solscan.io/tx/" \o last.proof
             /\ verdict.code = "WRONG_RECIPIENT"
                => /\ "correct_address" \in DOMAIN body
                   /\ body.correct_address = AssociatedTokenAddress(USDC_MINT, wallet)
             /\ verdict.code = "INSUFFICIENT_AMOUNT"
                => /\ Carries(body, "amount_expected", verdict, "expected")
                   /\ Carries(body, "amount_received", verdict, "received")
                   /\ Carries(body, "amount_shortfall", verdict, "shortfall")
                   /\ body.amount_expected = INVENTORY[last.item]
                   /\ body.amount_shortfall =
                          PriceInBaseUnits(body.amount_expected)
                          - Millionths(body.amount_received)
             /\ body.retry_info.item = last.item
             /\ body.retry_info.required_amount # NaN
             /\ body.retry_info.required_amount = InventoryLookup(last.item).price
             /\ body.retry_info.payment_address =
                    IF wallet = "" THEN "Not configured"
                    ELSE AssociatedTokenAddress(USDC_MINT, wallet)

\* C15: a request that went through the verifier is answered from the verdict
\* alone.  A rejection gives 402 with the verdict's code, error, message and
\* action as code, reason, details and action_required, with the explorer
\* address, the correct address and the expected, received and missing
\* amounts wherever the verdict holds them (missing = expected - received),
\* and with the receiving address and the required amount repeated; an
\* Accepted verdict gives the 200 of the handler with the verdict as payment.
C15_VerdictMapsToResponse == last.route = "buy-verify" => VerdictMapped

\* the same for the requests that name an item of the catalog
C15_ForCatalogItems ==
    (last.route = "buy-verify" /\ last.item \in CatalogItems) => VerdictMapped

\* 0.000989 USDC received for an item of 0.001 USDC: 0.000011 USDC missing
C15_CatalogWitness ==
    /\ last.route = "buy-verify"
    /\ last.item = "stripe-node"
    /\ last.response.status = 402
    /\ last.response.body.code = "INSUFFICIENT_AMOUNT"
    /\ last.response.body.amount_expected = 1
    /\ last.response.body.amount_received = [whole |-> 0, micro |-> 989]
    /\ last.response.body.amount_shortfall = 11
    /\ last.response.body.retry_info.payment_address = OurAccount

\* C16: a 200 sent for an Accepted verdict has success true, the item asked
\* for, charged equal to that item's catalog price whatever was received,
\* the currency, the item's content, and as payment the amount of the first
\* qualifying transfer in USDC and the signature presented with the request.
C16_SuccessBody ==
    (last.route = "buy-verify" /\ last.response.status = 200)
    => LET body == last.response.body
           Q == QualifyingPositions(last.fetched.instructions)
       IN /\ body.success = TRUE
          /\ body.item = last.item
          /\ last.item \in CatalogItems
          /\ body.charged = INVENTORY[last.item]
          /\ body.currency = "USDC"
          /\ body.content = "content of " \o last.item
          /\ body.payment.valid
          /\ Q # {}
          /\ body.payment.amountReceived =
                 ToUSDC(ParseInt(InstructionAmount(last.fetched.instructions[FirstOf(Q)])))
          /\ body.payment.transactionSignature = last.proof

\* the same for the requests that name an item of the catalog
C16_ForCatalogItems ==
    (last.route = "buy-verify" /\ last.item \in CatalogItems) => C16_SuccessBody

\* 0.002 USDC received for an item of 0.001 USDC, charged 0.001
C16_CatalogWitness ==
    /\ last.route = "buy-verify"
    /\ last.item = "stripe-node"
    /\ last.response.status = 200
    /\ last.response.body.charged = 1
    /\ last.response.body.payment.amountReceived = [whole |-> 0, micro |-> 2000]
    /\ last.response.body.payment.transactionSignature = "SIG_A"

\* the item of the end-to-end scenario, priced 0.001 USDC
ScenarioItem == "stripe-node"

\* a confirmed transfer of 0.0011 USDC to the configured account
ScenarioPayment == Tx("ok", <<Transfer(OurAccount, 1100)>>)

\* the proof of entry i was accepted at an earlier entry of the session
AcceptedBefore(i) ==
    \E k \in 1..(i - 1) : VerifiedAt(k, history[i].proof) /\ history[k].verdict.valid

\* C17: in a session of requests for an item priced 0.001, with the wallet
\* configured, each request is answered by what it carries and what the
\* ledger holds, whatever was answered before it: without proof, 402 with
\* amount 0.001; with a proof the ledger does not find, 402 TX_NOT_FOUND;
\* with a proof of a confirmed transfer of 0.0011, 200 with charged 0.001 and
\* amountReceived 0.0011; with a proof accepted earlier, 402 REPLAY_ATTACK.
C17_EndToEnd ==
    wallet # "" =>
    \A i \in DOMAIN history :
        history[i].item = ScenarioItem =>
            LET h == history[i] IN
            /\ ~Truthy(h.proof)
               => /\ h.response.status = 402
                  /\ h.response.body.error = "Payment Required"
                  /\ h.response.body.pricing.amount = 1
            /\ (Truthy(h.proof) /\ AcceptedBefore(i))
               => /\ h.response.status = 402
                  /\ h.response.body.code = "REPLAY_ATTACK"
            /\ (Truthy(h.proof) /\ ~AcceptedBefore(i))
               => /\ h.fetched # NoFetch
                  /\ h.fetched = Null
                     => /\ h.response.status = 402
                        /\ h.response.body.code = "TX_NOT_FOUND"
                  /\ h.fetched = ScenarioPayment
                     => /\ h.response.status = 200
                        /\ h.response.body.charged = 1
                        /\ h.response.body.payment.amountReceived =
                               [whole |-> 0, micro |-> 1100]

\* the four requests of the scenario, in order
C17_Witness ==
    /\ wallet # ""
    /\ Len(history) = 4
    /\ \A i \in 1..4 : history[i].item = ScenarioItem
    /\ history[1].route = "buy-challenge" /\ history[1].response.status = 402
    /\ \A i \in 2..4 : history[i].proof = "SIG_A"
    /\ history[2].fetched = Null /\ history[2].response.status = 402
    /\ history[3].fetched = ScenarioPayment /\ history[3].response.status = 200
    /\ history[4].response.status = 402
    /\ history[4].response.body.code = "REPLAY_ATTACK"

\* the record is confirmed and its first qualifying transfer covers at
\* least 99% of the price (thousandths of a USDC)
SufficientFor(fetched, price) ==
    /\ fetched.kind = "tx" /\ fetched.meta = "ok"
    /\ LET Q == QualifyingPositions(fetched.instructions) IN
       /\ Q # {}
       /\ 100 * ParseInt(InstructionAmount(fetched.instructions[FirstOf(Q)]))
              >= 99 * PriceInBaseUnits(price)

\* entry j is the first verification of the proof of entry i after entry i
NextVerificationAfter(i, j) ==
    /\ i < j
    /\ VerifiedAt(i, history[i].proof)
    /\ VerifiedAt(j, history[i].proof)
    /\ \A k \in (i + 1)..(j - 1) : ~VerifiedAt(k, history[i].proof)

\* C18: after a rejection TX_NOT_FOUND, TX_FAILED or VERIFICATION_ERROR the
\* next verification of the same proof asks the ledger again, and with the
\* wallet configured it returns Accepted as soon as the ledger then holds a
\* confirmed transfer that covers the amount expected: no earlier answer of
\* the ledger is remembered.
C18_FetchesAfresh ==
    \A i, j \in DOMAIN history :
        (/\ NextVerificationAfter(i, j)
         /\ CodeOf(history[i].verdict)
                \in {"TX_NOT_FOUND", "TX_FAILED", "VERIFICATION_ERROR"})
        => /\ history[j].fetched # NoFetch
           /\ (wallet # "" /\ SufficientFor(history[j].fetched, history[j].expected))
              => /\ history[j].verdict.valid
                 /\ history[j].response.status = 200

\* a failed call of the ledger, then an unconfirmed transaction, then the
\* confirmed transfer: the third verification is accepted
C18_Witness ==
    /\ wallet # ""
    /\ Len(history) = 3
    /\ \A i \in 1..3 : VerifiedAt(i, "SIG_A") /\ history[i].item = ScenarioItem
    /\ CodeOf(history[1].verdict) = "VERIFICATION_ERROR"
    /\ CodeOf(history[2].verdict) = "TX_FAILED"
    /\ history[3].fetched = ScenarioPayment
    /\ history[3].verdict.valid

\* C19: a call of the verifier for a signature that is in the set of used
\* signatures returns the REPLAY_ATTACK verdict in the step it is made: no
\* fetch is issued for it, and the receiving account is not resolved, so
\* the verdict is the same with and without a configured wallet.
C19_ReplayWithoutFetch ==
    [][/\ \A r \in BagToSet(inflight') : r.sig \notin used
       /\ (last' # last /\ last'.route = "call" /\ last'.proof \in used)
          => /\ last'.verdict = ReplayVerdict
             /\ last'.fetched = NoFetch
             /\ inflight' = inflight
             /\ used' = used]_vars

\* a replay verdict returned without a configured wallet
C19_Witness ==
    /\ last.route = "call"
    /\ wallet = ""
    /\ last.proof = "SIG_A"
    /\ used = {"SIG_A"}
    /\ last.verdict = ReplayVerdict
    /\ last.fetched = NoFetch

\* C20: without a wallet address every /buy request is answered as with
\* one: with 200, 402 or 404; the challenge is sent and gives wallet_address
\* and usdc_token_account as "Not configured"; the 402 of a failed
\* verification still has its payment_address, "Not configured" as well.
C20_MissingWalletStated ==
    (wallet = "" /\ last.route \in BuyRoutes)
    => /\ last.response.status \in {200, 402, 404}
       /\ (InventoryLookup(last.item).truthy /\ ~Truthy(last.proof))
          => /\ last.route = "buy-challenge"
             /\ last.response.status = 402
             /\ last.response.body.payment_details.wallet_address = "Not configured"
             /\ last.response.body.payment_details.usdc_token_account = "Not configured"
             /\ last.response.body.payment_details.usdc_mint = USDC_MINT
       /\ (last.route = "buy-verify" /\ ~last.verdict.valid)
          => /\ last.response.status = 402
             /\ "payment_address" \in DOMAIN last.response.body.retry_info
             /\ last.response.body.retry_info.payment_address = "Not configured"

\* a challenge sent without a wallet address
C20_Witness ==
    /\ wallet = ""
    /\ last.route = "buy-challenge"
    /\ last.item = "bundle-all"
    /\ last.response.status = 402
    /\ last.response.body.payment_details.wallet_address = "Not configured"
    /\ last.response.body.payment_details.usdc_token_account = "Not configured"

\* a confirmed transfer presented without a wallet address: 402 with the
\* verifier's fault and a payment_address
C20_WitnessFailure ==
    /\ wallet = ""
    /\ last.route = "buy-verify"
    /\ last.fetched = Tx("ok", <<Transfer(OurAccount, 1000)>>)
    /\ last.response.status = 402
    /\ last.response.body.code = "VERIFICATION_ERROR"
    /\ last.response.body.retry_info.payment_address = "Not configured"

\* the verifier was called with a non-empty string as proof and with the
\* positive price of a catalog item as expected amount
CalledWithPrice(item, sig, expected) ==
    /\ IsString(sig) /\ sig # ""
    /\ expected # NaN /\ expected > 0
    /\ item \in CatalogItems
    /\ expected = INVENTORY[item]

\* C21: every call the middleware makes to the verifier, suspended on its
\* fetch or already answered, was made with a non-empty proof and with the
\* positive price of a catalog item; never with an undefined, zero or
\* non-numeric expected amount.
C21_VerifierCalledWithPrice ==
    /\ \A r \in BagToSet(inflight) :
          r.route = "buy-verify" => CalledWithPrice(r.item, r.sig, r.expected)
    /\ last.route = "buy-verify"
          => CalledWithPrice(last.item, last.proof, last.expected)

\* the same for the requests that name an item of the catalog
C21_ForCatalogItems ==
    /\ \A r \in BagToSet(inflight) :
          (r.route = "buy-verify" /\ r.item \in CatalogItems)
              => CalledWithPrice(r.item, r.sig, r.expected)
    /\ (last.route = "buy-verify" /\ last.item \in CatalogItems)
          => CalledWithPrice(last.item, last.proof, last.expected)

\* the verification r can still end: some step of the service completes it
CanEnd(r) == ENABLED (\E answer \in LedgerAnswers : BuyVerifyComplete(r, answer))

\* C22: a verification never waits for good: also when the ledger leaves
\* its fetch unanswered, a step that ends the verification (a timeout
\* reported as VERIFICATION_ERROR) remains possible.
C22_FetchIsBounded == \A r \in BagToSet(inflight) : CanEnd(r)

\* a completed verification has fetched once: its call leaves the suspended
\* calls in the step that answers it, whatever the ledger's answer, a failure
\* of the fetch included, and no other call is suspended in its place
C22_OneFetchNoRetry ==
    [][(last' # last /\ last'.route = "buy-verify" /\ last'.fetched # NoFetch)
       => /\ BagCardinality(inflight') = BagCardinality(inflight) - 1
          /\ \A r \in BagToSet(inflight') : CopiesIn(r, inflight') <= CopiesIn(r, inflight)]_vars

\* the request last completed went through the verifier and was rejected
LastRejected == last.route \in {"buy-verify", "call"} /\ ~last.verdict.valid

\* C23: the code of every rejected verification, and with it the code field
\* of the 402 body, is one of REPLAY, NOT_FOUND, FAILED_OR_UNCONFIRMED,
\* WRONG_RECIPIENT, INSUFFICIENT_AMOUNT, VERIFICATION_ERROR.
C23_TaxonomyAsSpecified ==
    LastRejected =>
        /\ last.verdict.code \in {"REPLAY", "NOT_FOUND", "FAILED_OR_UNCONFIRMED",
                                  "WRONG_RECIPIENT", "INSUFFICIENT_AMOUNT",
                                  "VERIFICATION_ERROR"}
        /\ last.route = "buy-verify" => last.response.body.code = last.verdict.code

\* C23, amended: the code of every rejected verification, and with it the
\* code field of the 402 body, is one of REPLAY_ATTACK, TX_NOT_FOUND,
\* TX_FAILED, WRONG_RECIPIENT, INSUFFICIENT_AMOUNT, VERIFICATION_ERROR, and it
\* is the one that belongs to what the verification met: a used signature, no
\* transaction, an unconfirmed one, a raised fault, or a confirmed record.
C23_TaxonomyOfTheCode ==
    LastRejected =>
        /\ last.verdict.code \in {"REPLAY_ATTACK", "TX_NOT_FOUND", "TX_FAILED",
                                  "WRONG_RECIPIENT", "INSUFFICIENT_AMOUNT",
                                  "VERIFICATION_ERROR"}
        /\ last.route = "buy-verify"
              => /\ last.response.status = 402
                 /\ last.response.body.code = last.verdict.code
        /\ last.verdict.code = "REPLAY_ATTACK" <=> last.fetched = NoFetch
        /\ last.verdict.code = "TX_NOT_FOUND" <=> last.fetched = Null
        /\ last.verdict.code = "TX_FAILED"
              <=> (last.fetched.kind \in {"tx", "malformed"} /\ last.fetched.meta # "ok")
        /\ last.verdict.code = "VERIFICATION_ERROR"
              <=> FaultRaised(last.fetched, wallet)
        /\ last.verdict.code \in {"WRONG_RECIPIENT", "INSUFFICIENT_AMOUNT"}
              => (last.fetched.kind = "tx" /\ last.fetched.meta = "ok" /\ wallet # "")

\* a replay rejection answered 402 with the code REPLAY_ATTACK
C23_Witness ==
    /\ last.route = "buy-verify"
    /\ last.fetched = NoFetch
    /\ last.verdict.code = "REPLAY_ATTACK"
    /\ last.response.status = 402
    /\ last.response.body.code = "REPLAY_ATTACK"

\* the response to a /buy request as a function of the item, the proof, the
\* production flag, the wallet, whether the proof was in the set of used
\* signatures when the request came in, and the ledger's answer
GateOutcome(item, proof, prod, w, consumed, answer) ==
    IF ~InventoryLookup(item).truthy THEN NotFoundResponse(item)
    ELSE IF ~Truthy(proof) THEN ChallengeResponse(item, InventoryLookup(item), w)
    ELSE IF proof = "valid_proof" /\ ~prod
    THEN SuccessResponse(item, InventoryLookup(item), DevelopmentBypass)
    ELSE IF consumed THEN VerificationResponse(item, ReplayVerdict, w)
    ELSE VerificationResponse(item,
             VerdictAfterFetch(proof, InventoryLookup(item).price, answer, w), w)

\* C24: the response to each request of a session is the function
\* GateOutcome of that request's item and proof, the configuration, whether
\* the proof was accepted earlier, and the ledger's answer to this request;
\* nothing else that was asked or answered before enters it, so a proof is
\* accepted without a challenge before it and challenges and rejections
\* change no later response.
C24_OutcomeIsAFunction ==
    \A i \in DOMAIN history :
        /\ history[i].route \in BuyRoutes
        /\ history[i].response =
               GateOutcome(history[i].item, history[i].proof, production, wallet,
                           AcceptedBefore(i), history[i].fetched)
        /\ history[i].fetched = NoFetch
               <=> (~Truthy(history[i].proof) \/ AcceptedBefore(i))

\* the first request of a session presents a proof and is accepted; the
\* request after a challenge and a rejection for another item is a replay
C24_Witness ==
    /\ Len(history) = 4
    /\ history[1].proof = "SIG_A" /\ history[1].item = "stripe-node"
    /\ history[1].response.status = 200
    /\ history[2].route = "buy-challenge" /\ history[2].item = "openai-python"
    /\ history[3].item = "openai-python" /\ history[3].route = "buy-verify"
    /\ history[3].response.body.code = "REPLAY_ATTACK"
    /\ history[4].item = "stripe-node" /\ history[4].route = "buy-verify"
    /\ history[4].response.body.code = "REPLAY_ATTACK"

\* C25: in a non-production deployment a request for a catalog item sent
\* with the header Authorization: x402 valid_proof, as the README shows,
\* is answered 200 with the item's content.
C25_ReadmeExampleSucceeds ==
    (/\ ~production
     /\ last.route \in BuyRoutes
     /\ last.item \in CatalogItems
     /\ last.proof = ReadmeAuthorization)
    => /\ last.response.status = 200
       /\ last.response.body.content = "content of " \o last.item

\* what the README's request gets instead: it is never let through, it is
\* handed to the verifier as a signature and answered 402
C25_ReadmeExampleIsVerified ==
    (last.route \in BuyRoutes /\ last.proof = ReadmeAuthorization
     /\ InventoryLookup(last.item).truthy)
    => /\ last.route = "buy-verify"
       /\ last.response.status = 402
       /\ last.response.body.code = "VERIFICATION_ERROR"

\* C26: for a signature that is not used, with the wallet configured, the
\* verdict is that of the first check that fails, in the order: transaction
\* not found, transaction failed or unconfirmed, no qualifying transfer,
\* amount below the floor; a failed transaction that pays another account is
\* TX_FAILED, too small a transfer to another account is WRONG_RECIPIENT.
\* The first two are decided before the wallet is looked at.
C26_FirstFailingCheck ==
    (last.route = "call" /\ last.fetched.kind \in {"null", "tx"})
    => LET f == last.fetched IN
       IF f = Null THEN CodeOf(last.verdict) = "TX_NOT_FOUND"
       ELSE IF f.meta # "ok" THEN CodeOf(last.verdict) = "TX_FAILED"
       ELSE (wallet # "" /\ last.expected # NaN) =>
            LET Q == QualifyingPositions(f.instructions) IN
            IF Q = {} THEN CodeOf(last.verdict) = "WRONG_RECIPIENT"
            ELSE IF 100 * ParseInt(InstructionAmount(f.instructions[FirstOf(Q)]))
                        < 99 * PriceInBaseUnits(last.expected)
            THEN CodeOf(last.verdict) = "INSUFFICIENT_AMOUNT"
            ELSE last.verdict.valid

\* a failed transaction that pays too little to another account
C26_Witness ==
    /\ last.route = "call"
    /\ wallet # ""
    /\ last.expected = 1
    /\ last.fetched = Tx("err", <<Transfer(OtherAccount, 989)>>)
    /\ CodeOf(last.verdict) = "TX_FAILED"

\* a confirmed transaction that pays too little to another account
C26_WitnessWrongRecipient ==
    /\ last.route = "call"
    /\ wallet # ""
    /\ last.expected = 1
    /\ last.fetched = Tx("ok", <<Transfer(OtherAccount, 989)>>)
    /\ CodeOf(last.verdict) = "WRONG_RECIPIENT"

\* the four places a proof is looked for, in the order of lines 439-442
Sources(req) == <<req.xpp, req.auth, req.qpp, req.qp>>

\* absent or empty
Empty(v) == v = Undefined \/ v = ""

AllEmpty(req) == \A i \in 1..4 : Empty(Sources(req)[i])

\* the value of the first source that is not empty
FirstNonEmpty(req) ==
    LET i == CHOOSE j \in 1..4 : /\ ~Empty(Sources(req)[j])
                                 /\ \A k \in 1..(j - 1) : Empty(Sources(req)[k])
    IN Sources(req)[i]

\* the requests a step can be the handling of: a step leaves the item of its
\* request in `last` or in the call it suspends
StepRequests ==
    {req \in GateRequestInputs :
        req.item \in {last'.item} \cup {r.item : r \in BagToSet(inflight')}}

\* C27: whatever the middleware does with a request, the proof it acts on is
\* the first non-empty one of x-payment-proof, authorization, ?payment_proof,
\* ?proof; the request of a known item is challenged only when all four are
\* absent or empty, and every other treatment needs one that is not.
C27_FirstNonEmptySource ==
    [][\A req \in StepRequests :
        /\ BuyChallenge(req) => AllEmpty(req)
        /\ BuyNotFound(req) =>
              IF AllEmpty(req) THEN Empty(last'.proof)
              ELSE last'.proof = FirstNonEmpty(req)
        /\ (BuyBypass(req) \/ BuyReplay(req)
               \/ \E outcome \in FaultOutcomes : BuyFault(req, outcome))
              => ~AllEmpty(req) /\ last'.proof = FirstNonEmpty(req)
        /\ BuyVerifyStart(req)
              => /\ ~AllEmpty(req)
                 /\ \E r \in BagToSet(inflight') :
                        r.item = req.item /\ r.sig = FirstNonEmpty(req)]_vars

\* outside production, 'valid_proof' in the authorization header behind
\* another x-payment-proof: the header's value went to the verifier
C27_Witness ==
    /\ ~production
    /\ last.route = "buy-verify"
    /\ last.proof = "other-proof"
    /\ last.item \in CatalogItems
    /\ last.response.status = 402

\* the requests of a session that carry the sentinel
SentinelRequests == {req \in DevelopmentRequests : Sources(req)[1] = "valid_proof"}

\* C28: outside production every request for a catalog item whose proof is
\* 'valid_proof' is let through: no ledger fetch, status 200 with payment
\* method development_bypass, and the sentinel never enters the used set, so
\* the next such request is let through as well and none is answered as a
\* replay.
C28_SentinelNeverConsumed ==
    /\ "valid_proof" \notin used
    /\ accepted["valid_proof"] = 0
    /\ \A r \in BagToSet(inflight) : r.sig # "valid_proof"
    /\ \A i \in 1..Len(history) :
          history[i].proof = "valid_proof"
          => /\ history[i].route = "buy-bypass"
             /\ history[i].fetched = NoFetch
             /\ history[i].verdict = NoVerdict
             /\ history[i].response.status = 200
             /\ history[i].response.body.payment = [method |-> "development_bypass"]
             /\ history[i].response.body.content = InventoryLookup(history[i].item).content
    /\ SessionOpen => \A req \in SentinelRequests : ENABLED BuyBypass(req)

\* the sentinel used three times, twice for the same item, around a paid
\* purchase
C28_Witness ==
    /\ Len(history) = 4
    /\ history[1].route = "buy-bypass" /\ history[1].item = "stripe-node"
    /\ history[2].route = "buy-verify" /\ history[2].response.status = 200
    /\ history[3].route = "buy-bypass" /\ history[3].item = "openai-python"
    /\ history[4].route = "buy-bypass" /\ history[4].item = "stripe-node"
    /\ history[4].response.status = 200

\* the first instruction of a record that is a token transfer to account a
\* (a transferChecked only with the mint m)
FirstTransferTo(instructions, a, m) ==
    LET Q == {k \in DOMAIN instructions :
                /\ instructions[k].parsed /\ instructions[k].program = "spl-token"
                /\ instructions[k].destination = a
                /\ \/ instructions[k].type = "transfer"
                   \/ instructions[k].type = "transferChecked" /\ instructions[k].mint = m}
    IN IF Q = {} THEN 0 ELSE FirstOf(Q)

\* entry j of the purchase verified a confirmed transaction whose first
\* qualifying transfer pays exactly what the challenge of entry i advertised
PaidAsAdvertised(i, j) ==
    /\ history[i].route = "buy-challenge"
    /\ history[j].route = "buy-verify"
    /\ history[j].item = history[i].item
    /\ history[j].fetched # NoFetch
    /\ history[j].fetched.kind = "tx"
    /\ history[j].fetched.meta = "ok"
    /\ LET pd == history[i].response.body.payment_details
           ins == history[j].fetched.instructions
           k == FirstTransferTo(ins, pd.usdc_token_account, pd.usdc_mint)
       IN /\ k # 0
          /\ ParseInt(InstructionAmount(ins[k])) = pd.amount_base_units

\* C29: with the wallet configured, for every catalog item, a confirmed
\* transaction whose first qualifying transfer pays the account and exactly
\* the amount_base_units of that item's 402 challenge is accepted when its
\* signature is verified for the item and was not used before: the request
\* is answered 200 with the item's content.
C29_AdvertisedAmountIsAccepted ==
    \A i, j \in DOMAIN history :
        (wallet # "" /\ i < j /\ PaidAsAdvertised(i, j))
        => /\ history[j].verdict.valid
           /\ history[j].response.status = 200
           /\ history[j].response.body.content = "content of " \o history[j].item
           /\ history[j].proof \in used

\* the cheapest and the dearest item, paid as their challenges said
C29_Witness ==
    /\ Len(history) = 2
    /\ PaidAsAdvertised(1, 2)
    /\ history[1].item = "stripe-node"
    /\ history[1].response.body.payment_details.amount_base_units = 1000
    /\ history[2].verdict.valid

C29_WitnessBundle ==
    /\ Len(history) = 2
    /\ PaidAsAdvertised(1, 2)
    /\ history[1].item = "bundle-all"
    /\ history[1].response.body.payment_details.amount_base_units = 25000
    /\ Len(history[2].fetched.instructions) = 2
    /\ history[2].verdict.valid

\* the lookup of a source failed: no version was obtained
LookupFailed(o) ==
    \/ o.releases \notin {200, 404}
    \/ o.releases = 404 /\ (o.tags # 200 \/ o.names = <<>>)

\* the version a successful lookup obtained
Fetched(o) == IF o.releases = 200 THEN o.tag_name ELSE o.names[1]

NamesIn(q) == {q[k] : k \in DOMAIN q}

UpdatesOf(repo) == {u \in NamesIn(monitor.updates) : u.repo = repo}

\* source i was handled as the claim says; the file still holds what was loaded
HandledAsSpecified(i) ==
    LET source == SOURCES[i]
        o == monitor.log[i].lookup
    IN IF LookupFailed(o)
       THEN /\ source.name \in NamesIn(monitor.errors)
            /\ UpdatesOf(source.repo) = {}
            /\ monitor.db[source.repo] = monitor.file[source.repo]
       ELSE /\ source.name \notin NamesIn(monitor.errors)
            /\ monitor.db[source.repo] = Fetched(o)
            /\ IF monitor.file[source.repo] = Fetched(o)
               THEN UpdatesOf(source.repo) = {}
               ELSE \E u \in UpdatesOf(source.repo) :
                        /\ u.newVersion = Fetched(o)
                        /\ u.oldVersion = monitor.file[source.repo]

\* C30: a run of checkForUpdates visits every source and then saves the
\* database, whatever the lookups do, a failing tags request after a 404
\* included: a run that has not saved can still take a step; every source
\* visited is handled as specified (a failing one in errors only, its stored
\* version kept; a fetched new or different version in the database and in
\* updates), and the file saved is the database so built.
C30_EveryRunSaves ==
    /\ monitor.phase = "done" \/ ENABLED NextMonitor
    /\ monitor.phase = "loop" =>
          \A i \in 1..Len(monitor.log) : HandledAsSpecified(i)
    /\ monitor.phase = "done" =>
          /\ Len(monitor.log) = Len(SOURCES)
          /\ monitor.file = monitor.db

\* the run that ends: every lookup returned, with a version or with null
C30_ReturningLookupsAreHandled ==
    /\ monitor.phase \in {"loop", "done"} =>
          \A i \in 1..Len(monitor.log) : ~GetLatestRelease(monitor.log[i].lookup).threw
    /\ monitor.phase = "loop" =>
          /\ Len(monitor.log) = monitor.pos - 1
          /\ \A i \in 1..Len(monitor.log) : HandledAsSpecified(i)
    /\ monitor.phase = "done" =>
          /\ Len(monitor.log) = Len(SOURCES)
          /\ monitor.file = monitor.db

\* a run stopped by the tags request of its second source, after the first
\* source's new version was put in the database: nothing was saved
C30_Witness ==
    /\ monitor.phase = "rejected"
    /\ Len(monitor.log) = 2
    /\ monitor.log[2].lookup = Lookup(404, Undefined, 403, <<>>)
    /\ monitor.updates # <<>>
    /\ monitor.db # monitor.file

\* a run that ended with an error, an update and an unchanged source
C30_WitnessSaved ==
    /\ monitor.phase = "done"
    /\ monitor.errors # <<>>
    /\ monitor.updates # <<>>
    /\ Len(monitor.errors) + Len(monitor.updates) < Len(SOURCES)

====
